---- MODULE Spec2Model ----
(***************************************************************************)
(* TreeChat overlay (contents/overlay.tsx): the turn tree, its             *)
(* reconciliation with the page's linear transcript, alignment, subtree    *)
(* deletion, collapse state and persistence, and the Overlay component     *)
(* that drives them from page events.                                      *)
(***************************************************************************)
EXTENDS Integers, Sequences, FiniteSets, TLC

(* ------------------------------ bounds --------------------------------- *)

\* longest transcript a conversation page ever shows
MaxPairs == 3

\* number of distinct values Math.random() can contribute to a node id
MaxRand == 1

\* most setTree calls waiting for one render
MaxQueue == 2

\* most events from outside the overlay: changes of the host page (navigations,
\* re-renders of the transcript) and clicks of the user
MaxEvents == 3

\* transcript length of the worked example (SpecExample)
ExamplePairs == 5

(* ----------------------------- constants ------------------------------- *)

ROOT_ID == <<"root">>

\* makeSummaryFromUserText's default max
SummaryMax == 20

\* refresh retries while retryRef.current < RetryBudget
RetryBudget == 2

\* the conversations the page can show (getConversationKey results)
Keys == {"c_a", "c_b"}

Rand == 1..MaxRand

(* ------------------------------- state --------------------------------- *)

VARIABLES
  tree,        \* the TreeState: React state `tree` as of the last render
  base,        \* the state the queued setTree calls apply to
  queue,       \* setTree calls not yet rendered, oldest first
  effects,     \* effects of the last render that have not run yet
  treeRef,     \* treeRef.current
  retryRef,    \* retryRef.current
  retryTimer,  \* the 90 ms timer of retryTimerRef is armed
  retryFrame,  \* a fired retry timer's animation frame callback is pending
  refreshFrame,\* the activeId effect's animation frame callback is pending
  saveTimer,   \* the tree the armed 180 ms save timer will write, if any
  storage,     \* localStorage: per conversation key, the stored text, if any
  location,    \* getConversationKey() of the page's URL
  lastUrl,     \* lastUrl of the URL poll
  dom,         \* the conversation and number of pairs the page has rendered
  aligning,    \* alignToDom: "idle", "running" (confirmed, scrolling) or "done"
  events,      \* how many times the host page has changed or the user has clicked
  ui,          \* the last click handler run, what it was aimed at and its dialogs
  last,        \* history: the last operation, its inputs and the state it was applied to
  removed      \* history: per linear index, whether deleteSubtree removed its node

overlayVars == <<base, queue, effects, treeRef, retryRef, retryTimer, retryFrame,
                 refreshFrame, saveTimer, storage, location, lastUrl, dom, aligning,
                 events, ui>>

history == <<last, removed>>

vars == <<tree, overlayVars, history>>

(* ------------------------------ helpers -------------------------------- *)

\* JS object spread with one computed key: {...f, [k]: v}
Put(f, k, v) == [x \in (DOMAIN f) \cup {k} |-> IF x = k THEN v ELSE f[x]]

\* JS delete of a set of keys
Omit(f, ks) == [x \in (DOMAIN f) \ ks |-> f[x]]

\* Array.prototype.filter((c) => c !== x)
RECURSIVE FilterOut(_, _)
FilterOut(s, x) ==
  IF s = <<>> THEN <<>>
  ELSE IF Head(s) = x THEN FilterOut(Tail(s), x)
       ELSE <<Head(s)>> \o FilterOut(Tail(s), x)

Range(s) == {s[i] : i \in 1..Len(s)}

EmptyMap == [x \in {} |-> TRUE]

(* ------------------------------ summary -------------------------------- *)

IsSpace(c) == c = " "

\* replace(/\s+/g, " "): every run of whitespace becomes one space
RECURSIVE CollapseSpaces(_)
CollapseSpaces(t) ==
  IF t = <<>> THEN <<>>
  ELSE IF IsSpace(Head(t))
       THEN IF Tail(t) # <<>> /\ IsSpace(Head(Tail(t)))
            THEN CollapseSpaces(Tail(t))
            ELSE <<" ">> \o CollapseSpaces(Tail(t))
       ELSE <<Head(t)>> \o CollapseSpaces(Tail(t))

\* String.prototype.trim on a text whose whitespace runs are single spaces
Trim(t) ==
  LET a == IF t # <<>> /\ IsSpace(Head(t)) THEN Tail(t) ELSE t
  IN IF a # <<>> /\ IsSpace(a[Len(a)]) THEN SubSeq(a, 1, Len(a) - 1) ELSE a

EmptySummary == <<"(", "e", "m", "p", "t", "y", ")">>

makeSummaryFromUserText(userText) ==
  LET t == Trim(CollapseSpaces(userText))
  IN IF t = <<>> THEN EmptySummary
     ELSE IF Len(t) <= SummaryMax THEN t
          ELSE SubSeq(t, 1, SummaryMax) \o <<"...">>

(* ------------------------------- page ---------------------------------- *)

\* the user text of the turn at linear index i
UserTextOf(i) ==
  CASE i % 4 = 0 -> <<"h", "i">>
    [] i % 4 = 1 -> <<" ", " ">>
    [] i % 4 = 2 -> [k \in 1..(SummaryMax + 1) |-> "a"]
    [] OTHER -> <<" ", "q", " ", " ", "x">>

\* the (user, assistant) pair the page shows at linear index i of conversation key
PairOf(key, i) ==
  [userText |-> UserTextOf(i),
   assistantText |-> <<"o", "k">>,
   userHtml |-> <<"u", key, i>>,
   assistantHtml |-> <<"a", key, i>>]

\* pairMessages(extractMessages()) when the page has rendered n turns of key
extractPairs(key, n) == [j \in 1..n |-> PairOf(key, j - 1)]

(* ----------------------------- tree logic ------------------------------ *)

RootNode ==
  [id |-> ROOT_ID, parentId |-> ROOT_ID, children |-> <<>>, depth |-> 0,
   linearIndex |-> -1, summary |-> <<"R", "o", "o", "t">>,
   userHtml |-> <<>>, assistantHtml |-> <<>>]

freshTree(key) ==
  [convoKey |-> key, seenLinearCount |-> 0, activeId |-> ROOT_ID,
   collapsedIds |-> EmptyMap,
   nodes |-> [x \in {ROOT_ID} |-> RootNode]]

\* an id made of the random part only
NodeIdByRandom(idx, rnd) == <<"n", 0, rnd>>

\* `n_${idx}_${Math.random().toString(16).slice(2)}`
NodeId(idx, rnd) == <<"n", idx, rnd>>

\* AlignId numbering on from the count the tree had reached
AlignIdContinued(i) == <<"n_align", i + tree.seenLinearCount>>

\* `n_align_${i}`
AlignId(i) == <<"n_align", i>>

\* appendUnderActive with the parent taken to be root whatever activeId is
appendUnderRoot(st, pair, idx, rnd) ==
  LET parent == st.nodes[ROOT_ID]
      id == NodeId(idx, rnd)
      node == [id |-> id, parentId |-> parent.id, children |-> <<>>,
               depth |-> parent.depth + 1, linearIndex |-> idx,
               summary |-> makeSummaryFromUserText(pair.userText),
               userHtml |-> pair.userHtml, assistantHtml |-> pair.assistantHtml]
  IN [st EXCEPT !.activeId = id,
                !.seenLinearCount = idx + 1,
                !.nodes = Put(Put(st.nodes, id, node), parent.id,
                              [parent EXCEPT !.children = Append(parent.children, id)])]

appendUnderActive(st, pair, idx, rnd) ==
  LET parent == IF st.activeId \in DOMAIN st.nodes
                THEN st.nodes[st.activeId] ELSE st.nodes[ROOT_ID]
      id == NodeId(idx, rnd)
      node == [id |-> id, parentId |-> parent.id, children |-> <<>>,
               depth |-> parent.depth + 1, linearIndex |-> idx,
               summary |-> makeSummaryFromUserText(pair.userText),
               userHtml |-> pair.userHtml, assistantHtml |-> pair.assistantHtml]
  IN [st EXCEPT !.activeId = id,
                !.seenLinearCount = idx + 1,
                !.nodes = Put(Put(st.nodes, id, node), parent.id,
                              [parent EXCEPT !.children = Append(parent.children, id)])]

\* the append loop of refresh: for (i = st.seenLinearCount; i < pairs.length; i++)
RECURSIVE appendLoop(_, _, _, _)
appendLoop(next, pairs, i, rnds) ==
  IF i < Len(pairs)
  THEN appendLoop(appendUnderActive(next, pairs[i + 1], i, rnds[i]), pairs, i + 1, rnds)
  ELSE next

\* the Math.random() draws of one run of the append loop over n pairs
RandDraws(st, n) == [st.seenLinearCount..(n - 1) -> Rand]

RECURSIVE pathIdsUnreversed(_, _, _)
\* pathToRoot's walk without the final reverse()
pathIdsUnreversed(st, curId, guard) ==
  IF curId = ROOT_ID \/ curId \in guard \/ curId \notin DOMAIN st.nodes
  THEN <<>>
  ELSE <<curId>> \o pathIdsUnreversed(st, st.nodes[curId].parentId, guard \cup {curId})

RECURSIVE pathIds(_, _, _)
pathIds(st, curId, guard) ==
  IF curId = ROOT_ID \/ curId \in guard \/ curId \notin DOMAIN st.nodes
  THEN <<>>
  ELSE pathIds(st, st.nodes[curId].parentId, guard \cup {curId}) \o <<curId>>

\* root-to-active order, root excluded (as ids)
pathToRoot(st) == pathIds(st, st.activeId, {})

RECURSIVE dfsListChildrenFirst(_, _, _)
\* flattenTree's dfs pushing a node after its children
dfsListChildrenFirst(st, ids, keepRoot) ==
  IF ids = <<>> THEN <<>>
  ELSE LET id == Head(ids)
       IN (IF id \notin DOMAIN st.nodes THEN <<>>
           ELSE dfsListChildrenFirst(st, st.nodes[id].children, keepRoot)
                \o (IF id = ROOT_ID /\ ~keepRoot THEN <<>> ELSE <<id>>))
          \o dfsListChildrenFirst(st, Tail(ids), keepRoot)

RECURSIVE dfsList(_, _, _)
dfsList(st, ids, keepRoot) ==
  IF ids = <<>> THEN <<>>
  ELSE LET id == Head(ids)
       IN (IF id \notin DOMAIN st.nodes THEN <<>>
           ELSE (IF id = ROOT_ID /\ ~keepRoot THEN <<>> ELSE <<id>>)
                \o dfsList(st, st.nodes[id].children, keepRoot))
          \o dfsList(st, Tail(ids), keepRoot)

\* depth-first pre-order from root, root excluded (as ids)
flattenTree(st) == dfsList(st, <<ROOT_ID>>, FALSE)

\* alignLoop without its last line (parentId = id): every node hangs under root
RECURSIVE alignLoopFlat(_, _, _, _)
alignLoopFlat(nodes, parentId, pairs, i) ==
  IF i < Len(pairs)
  THEN LET id == AlignId(i)
           node == [id |-> id, parentId |-> parentId, children |-> <<>>,
                    depth |-> nodes[parentId].depth + 1, linearIndex |-> i,
                    summary |-> makeSummaryFromUserText(pairs[i + 1].userText),
                    userHtml |-> <<>>, assistantHtml |-> <<>>]
           nodes1 == Put(nodes, id, node)
           nodes2 == Put(nodes1, parentId,
                         [nodes1[parentId] EXCEPT
                            !.children = Append(nodes1[parentId].children, id)])
       IN alignLoopFlat(nodes2, parentId, pairs, i + 1)
  ELSE nodes

\* the loop of buildAlignedLinearTreeFromPairs: for (i = 0; i < pairs.length; i++)
RECURSIVE alignLoop(_, _, _, _)
alignLoop(nodes, parentId, pairs, i) ==
  IF i < Len(pairs)
  THEN LET id == AlignId(i)
           parentDepth == IF parentId \in DOMAIN nodes THEN nodes[parentId].depth ELSE 0
           node == [id |-> id, parentId |-> parentId, children |-> <<>>,
                    depth |-> parentDepth + 1, linearIndex |-> i,
                    summary |-> makeSummaryFromUserText(pairs[i + 1].userText),
                    userHtml |-> <<>>, assistantHtml |-> <<>>]
           nodes1 == Put(nodes, id, node)
           nodes2 == Put(nodes1, parentId,
                         [nodes1[parentId] EXCEPT
                            !.children = Append(nodes1[parentId].children, id)])
       IN alignLoop(nodes2, id, pairs, i + 1)
  ELSE nodes

buildAlignedLinearTreeFromPairs(convoKey, pairs) ==
  [convoKey |-> convoKey,
   seenLinearCount |-> Len(pairs),
   activeId |-> IF Len(pairs) > 0 THEN AlignId(Len(pairs) - 1) ELSE ROOT_ID,
   nodes |-> alignLoop([x \in {ROOT_ID} |-> RootNode], ROOT_ID, pairs, 0),
   collapsedIds |-> EmptyMap]

(* --------------------------- collapse helpers -------------------------- *)

hasChildren(st, id) == id \in DOMAIN st.nodes /\ st.nodes[id].children # <<>>

\* st.collapsedIds?.[id] is truthy
IsCollapsed(st, id) == id \in DOMAIN st.collapsedIds /\ st.collapsedIds[id]

\* hiddenWalk that also tests the node's own flag
RECURSIVE hiddenWalkSelf(_, _, _)
hiddenWalkSelf(st, curId, guard) ==
  IF curId = ROOT_ID \/ curId \in guard \/ curId \notin DOMAIN st.nodes
  THEN FALSE
  ELSE IF IsCollapsed(st, curId) THEN TRUE
       ELSE hiddenWalkSelf(st, st.nodes[curId].parentId, guard \cup {curId})

RECURSIVE hiddenWalk(_, _, _)
hiddenWalk(st, curId, guard) ==
  IF curId = ROOT_ID \/ curId \in guard \/ curId \notin DOMAIN st.nodes
  THEN FALSE
  ELSE LET pId == st.nodes[curId].parentId
       IN IF IsCollapsed(st, pId) THEN TRUE
          ELSE hiddenWalk(st, pId, guard \cup {curId})

isHiddenByCollapsed(st, nodeId) == hiddenWalk(st, nodeId, {})

\* flatNodes: flattenTree filtered by !isHiddenByCollapsed
flatNodes(st) == SelectSeq(flattenTree(st), LAMBDA id : ~isHiddenByCollapsed(st, id))

(* ---------------------------- delete helpers --------------------------- *)

\* collectSubtreeIds without the recursion: the node and its direct children
collectChildrenOnly(st, rootId) ==
  IF rootId \notin DOMAIN st.nodes THEN <<>>
  ELSE <<rootId>> \o st.nodes[rootId].children

collectSubtreeIds(st, rootId) == dfsList(st, <<rootId>>, TRUE)

\* deleteSubtree that rolls seenLinearCount back to the lowest deleted index
deleteSubtreeRollback(st, targetId) ==
  IF targetId \notin DOMAIN st.nodes \/ targetId = ROOT_ID THEN st
  ELSE
    LET parentId == st.nodes[targetId].parentId
        toDelete == Range(collectSubtreeIds(st, targetId))
        nodes1 == Omit(st.nodes, toDelete)
        nextNodes ==
          IF parentId \in DOMAIN nodes1
          THEN Put(nodes1, parentId,
                   [st.nodes[parentId] EXCEPT
                      !.children = FilterOut(st.nodes[parentId].children, targetId)])
          ELSE nodes1
        lowest == CHOOSE i \in {st.nodes[d].linearIndex : d \in toDelete} :
                    \A d \in toDelete : i <= st.nodes[d].linearIndex
    IN [st EXCEPT !.activeId = IF parentId \in DOMAIN nextNodes THEN parentId ELSE ROOT_ID,
                  !.nodes = nextNodes,
                  !.collapsedIds = Omit(st.collapsedIds, toDelete),
                  !.seenLinearCount = lowest]

\* deleteSubtree that lowers seenLinearCount by the number of deleted nodes
deleteSubtreeDecrement(st, targetId) ==
  IF targetId \notin DOMAIN st.nodes \/ targetId = ROOT_ID THEN st
  ELSE
    LET parentId == st.nodes[targetId].parentId
        toDelete == Range(collectSubtreeIds(st, targetId))
        nodes1 == Omit(st.nodes, toDelete)
        nextNodes ==
          IF parentId \in DOMAIN nodes1
          THEN Put(nodes1, parentId,
                   [st.nodes[parentId] EXCEPT
                      !.children = FilterOut(st.nodes[parentId].children, targetId)])
          ELSE nodes1
    IN [st EXCEPT !.activeId = IF parentId \in DOMAIN nextNodes THEN parentId ELSE ROOT_ID,
                  !.nodes = nextNodes,
                  !.collapsedIds = Omit(st.collapsedIds, toDelete),
                  !.seenLinearCount = st.seenLinearCount - Cardinality(toDelete)]

\* deleteSubtree without step 2: the parent keeps the target in its children
deleteSubtreeKeepLink(st, targetId) ==
  IF targetId \notin DOMAIN st.nodes \/ targetId = ROOT_ID THEN st
  ELSE
    LET parentId == st.nodes[targetId].parentId
        toDelete == Range(collectSubtreeIds(st, targetId))
        nextNodes == Omit(st.nodes, toDelete)
    IN [st EXCEPT !.activeId = IF parentId \in DOMAIN nextNodes THEN parentId ELSE ROOT_ID,
                  !.nodes = nextNodes,
                  !.collapsedIds = Omit(st.collapsedIds, toDelete)]

\* deleteSubtree that always falls back to root as the new active node
deleteSubtreeToRoot(st, targetId) ==
  IF targetId \notin DOMAIN st.nodes \/ targetId = ROOT_ID THEN st
  ELSE
    LET parentId == st.nodes[targetId].parentId
        toDelete == Range(collectSubtreeIds(st, targetId))
        nodes1 == Omit(st.nodes, toDelete)
        nextNodes ==
          IF parentId \in DOMAIN nodes1
          THEN Put(nodes1, parentId,
                   [st.nodes[parentId] EXCEPT
                      !.children = FilterOut(st.nodes[parentId].children, targetId)])
          ELSE nodes1
    IN [st EXCEPT !.activeId = ROOT_ID,
                  !.nodes = nextNodes,
                  !.collapsedIds = Omit(st.collapsedIds, toDelete)]

\* deleteSubtree without the test for root
deleteSubtreeUnguarded(st, targetId) ==
  IF targetId \notin DOMAIN st.nodes THEN st
  ELSE
    LET toDelete == Range(collectSubtreeIds(st, targetId))
        nextNodes == Omit(st.nodes, toDelete)
    IN [st EXCEPT !.activeId = ROOT_ID,
                  !.nodes = nextNodes,
                  !.collapsedIds = Omit(st.collapsedIds, toDelete)]

deleteSubtree(st, targetId) ==
  IF targetId \notin DOMAIN st.nodes THEN st
  ELSE IF targetId = ROOT_ID THEN st
  ELSE
    LET target == st.nodes[targetId]
        parentId == target.parentId
        toDelete == Range(collectSubtreeIds(st, targetId))
        nodes1 == Omit(st.nodes, toDelete)
        nextNodes ==
          IF parentId \in DOMAIN st.nodes /\ parentId \in DOMAIN nodes1
          THEN Put(nodes1, parentId,
                   [st.nodes[parentId] EXCEPT
                      !.children = FilterOut(st.nodes[parentId].children, targetId)])
          ELSE nodes1
        nextCollapsed == Omit(st.collapsedIds, toDelete)
        nextActiveId == IF parentId \in DOMAIN nextNodes THEN parentId ELSE ROOT_ID
    IN [st EXCEPT !.activeId = nextActiveId,
                  !.nodes = nextNodes,
                  !.collapsedIds = nextCollapsed]

(* ------------------------------ updaters ------------------------------- *)

\* selectActive's updater: (prev) => ({ ...prev, activeId: id })
setActiveId(prev, id) == [prev EXCEPT !.activeId = id]

\* toggleCollapseNode's updater that also selects the row
setCollapsedAndSelect(prev, id, cur) ==
  [prev EXCEPT !.collapsedIds = Put(prev.collapsedIds, id, ~cur), !.activeId = id]

\* toggleCollapseNode's updater: collapsedIds: { ...prev.collapsedIds, [id]: !cur }
setCollapsed(prev, id, cur) ==
  [prev EXCEPT !.collapsedIds = Put(prev.collapsedIds, id, ~cur)]

\* expandAllNodes' updater
clearCollapsed(prev) == [prev EXCEPT !.collapsedIds = EmptyMap]

RECURSIVE upWalk(_, _, _)
upWalk(nodes, cur, guard) ==
  IF cur = ROOT_ID \/ cur \in guard THEN <<>>
  ELSE (IF cur \in DOMAIN nodes
        THEN upWalk(nodes, nodes[cur].parentId, guard \cup {cur})
        ELSE <<>>) \o <<cur>>

\* collapseAllOtherNodes' updater without the loop over the active node's children
focusCollapsedOffPath(prev) ==
  LET nodes == prev.nodes
      activeId == prev.activeId
      path == <<ROOT_ID>> \o upWalk(nodes, activeId, {})
      offPath == UNION {
        IF path[i] \in DOMAIN nodes
        THEN Range(nodes[path[i]].children) \ {path[i + 1]}
        ELSE {} : i \in 1..(Len(path) - 1)}
      flagged == offPath \ {ROOT_ID, activeId}
  IN [prev EXCEPT !.collapsedIds = [x \in flagged |-> TRUE]]

\* collapseAllOtherNodes' updater
focusCollapsed(prev) ==
  LET nodes == prev.nodes
      activeId == prev.activeId
      path == <<ROOT_ID>> \o upWalk(nodes, activeId, {})
      offPath == UNION {
        IF path[i] \in DOMAIN nodes
        THEN Range(nodes[path[i]].children) \ {path[i + 1]}
        ELSE {} : i \in 1..(Len(path) - 1)}
      below == IF activeId \in DOMAIN nodes THEN Range(nodes[activeId].children) ELSE {}
      flagged == (offPath \cup below) \ {ROOT_ID, activeId}
  IN [prev EXCEPT !.collapsedIds = [x \in flagged |-> TRUE]]

(* ------------------------------ persist -------------------------------- *)

\* localStorage.getItem of a key that was never written
NoItem == <<"none">>

\* a stored text that JSON.parse rejects
Unparsable == <<"unparsable">>

\* the stored text of length 0
EmptyText == <<"empty">>

\* a stored text that JSON.parse accepts is modelled by the JSON value it writes
JsonNull == <<"null">>
JsonString(s) == <<"string", s>>
JsonNumber(n) == <<"number", n>>
JsonBool(b) == <<"bool", b>>
JsonArray(items) == <<"array", items>>
JsonObject(members) == <<"object", members>>

\* JSON.stringify of a TreeNode
stringifyNode(n) ==
  JsonObject(
    [id |-> JsonString(n.id),
     parentId |-> JsonString(n.parentId),
     children |-> JsonArray([i \in 1..Len(n.children) |-> JsonString(n.children[i])]),
     depth |-> JsonNumber(n.depth),
     linearIndex |-> JsonNumber(n.linearIndex),
     summary |-> JsonString(n.summary),
     userHtml |-> JsonString(n.userHtml),
     assistantHtml |-> JsonString(n.assistantHtml)])

\* JSON.stringify of a TreeState
JSONstringify(st) ==
  JsonObject(
    [convoKey |-> JsonString(st.convoKey),
     seenLinearCount |-> JsonNumber(st.seenLinearCount),
     activeId |-> JsonString(st.activeId),
     nodes |-> JsonObject([id \in DOMAIN st.nodes |-> stringifyNode(st.nodes[id])]),
     collapsedIds |-> JsonObject([id \in DOMAIN st.collapsedIds |->
                                    JsonBool(st.collapsedIds[id])])])

\* the value JSON.parse builds from a JSON text
RECURSIVE JSONparse(_)
JSONparse(j) ==
  CASE j[1] = "object" -> [k \in DOMAIN j[2] |-> JSONparse(j[2][k])]
    [] j[1] = "array" -> [i \in DOMAIN j[2] |-> JSONparse(j[2][i])]
    [] j[1] = "null" -> JsonNull
    [] OTHER -> j[2]

\* the JSON text writes a value that `!v` takes for false
Falsy(j) ==
  \/ j[1] = "null"
  \/ j[1] = "bool" /\ ~j[2]
  \/ j[1] = "number" /\ j[2] = 0
  \/ j[1] = "string" /\ j[2] = <<>>

\* safeJsonParse as the JSON text it accepted: <<>> for null, else <<text>>
safeJsonParse(s) ==
  IF s = NoItem \/ s = EmptyText THEN <<>>
  ELSE IF s = Unparsable THEN <<>>
  ELSE <<s>>

\* loadTree that leaves a snapshot without collapsedIds as it is
decodeTreeAsStored(s) ==
  LET st == safeJsonParse(s)
  IN IF st = <<>> \/ Falsy(st[1]) THEN <<>> ELSE <<JSONparse(st[1])>>

\* loadTree that always starts with nothing collapsed
decodeTreeExpanded(s) ==
  LET st == safeJsonParse(s)
  IN IF st = <<>> \/ Falsy(st[1]) THEN <<>>
     ELSE LET v == JSONparse(st[1])
          IN <<[k \in DOMAIN v \cup {"collapsedIds"} |->
                  IF k = "collapsedIds" THEN EmptyMap ELSE v[k]]>>

\* loadTree on the text getItem returned: <<>> for null, else <<the TreeState>>
decodeTree(s) ==
  LET st == safeJsonParse(s)
  IN IF st = <<>> \/ Falsy(st[1]) THEN <<>>
     ELSE LET j == st[1]
              v == JSONparse(j)
          IN IF "collapsedIds" \in DOMAIN j[2] /\ ~Falsy(j[2].collapsedIds)
             THEN <<v>>
             ELSE <<[k \in DOMAIN v \cup {"collapsedIds"} |->
                       IF k = "collapsedIds" THEN EmptyMap ELSE v[k]]>>

\* stripTreeForPersist that keeps the markup
stripTreeKeepMarkup(st) ==
  [convoKey |-> st.convoKey,
   seenLinearCount |-> st.seenLinearCount,
   activeId |-> st.activeId,
   nodes |-> st.nodes,
   collapsedIds |-> st.collapsedIds]

stripTreeForPersist(st) ==
  [convoKey |-> st.convoKey,
   seenLinearCount |-> st.seenLinearCount,
   activeId |-> st.activeId,
   nodes |-> [id \in DOMAIN st.nodes |->
                [id |-> st.nodes[id].id,
                 parentId |-> st.nodes[id].parentId,
                 children |-> st.nodes[id].children,
                 depth |-> st.nodes[id].depth,
                 linearIndex |-> st.nodes[id].linearIndex,
                 summary |-> st.nodes[id].summary,
                 userHtml |-> <<>>,
                 assistantHtml |-> <<>>]],
   collapsedIds |-> IF "collapsedIds" \in DOMAIN st THEN st.collapsedIds ELSE EmptyMap]

(* ----------------------------- reconcile ------------------------------- *)

\* reconcile whose loop starts one pair early when nothing is unseen
reconcileReappend(st, pairs, rnds) ==
  IF Len(pairs) = 0 \/ Len(pairs) < st.seenLinearCount THEN st
  ELSE IF Len(pairs) = st.seenLinearCount
       THEN appendUnderActive(st, pairs[Len(pairs)], Len(pairs) - 1, 1)
       ELSE appendLoop(st, pairs, st.seenLinearCount, rnds)

\* refresh's test and append loop on one state: not ready when
\* pairs.length <= seenLinearCount, else append the unseen pairs
reconcile(st, pairs, rnds) ==
  IF Len(pairs) <= st.seenLinearCount THEN st
  ELSE appendLoop(st, pairs, st.seenLinearCount, rnds)

(* ------------------------- history bookkeeping ------------------------- *)

NoId == <<>>

\* an id that names no node
MissingId == <<"n_missing">>

Indices == 0..(MaxPairs - 1)

NotRemoved == [i \in Indices |-> "no"]

\* the linear indices of the nodes ids names in st
IndicesOf(st, ids) == {st.nodes[id].linearIndex : id \in ids \cap DOMAIN st.nodes}

Op(name, n, id, pre) == [op |-> name, n |-> n, id |-> id, pre |-> pre]

\* a click handler's run: the handler, whether the id it acts on is a node of
\* treeRef.current ("ok"), root or missing, whether it showed an alert, the
\* answer to its confirm dialog ("none" when it showed no dialog), and which of
\* the events it was
Clicked(handler, target, notice, confirm) ==
  [handler |-> handler, target |-> target, notice |-> notice, confirm |-> confirm,
   at |-> events + 1]

NoClick == [handler |-> "none", target |-> "none", notice |-> FALSE, confirm |-> "none",
            at |-> 0]

\* how st knows id
TargetIn(st, id) ==
  IF id = ROOT_ID THEN "root"
  ELSE IF id \in DOMAIN st.nodes THEN "ok" ELSE "missing"

(* --------------------- the tree store's entry points ------------------- *)

\* one conversation's tree, driven through its entry points
ThisKey == "c_a"

InitApi ==
  /\ tree = freshTree(ThisKey)
  /\ base = tree
  /\ queue = <<>>
  /\ effects = {}
  /\ treeRef = tree
  /\ retryRef = 0
  /\ retryTimer = FALSE
  /\ retryFrame = FALSE
  /\ refreshFrame = FALSE
  /\ saveTimer = <<>>
  /\ storage = [k \in Keys |-> NoItem]
  /\ location = ThisKey
  /\ lastUrl = ThisKey
  /\ dom = [conv |-> ThisKey, n |-> 0]
  /\ aligning = "idle"
  /\ events = 0
  /\ ui = NoClick
  /\ last = Op("init", -1, NoId, freshTree(ThisKey))
  /\ removed = NotRemoved

Reconcile(n, rnds) ==
  /\ tree' = reconcile(tree, extractPairs(ThisKey, n), rnds)
  /\ last' = Op("reconcile", n, NoId, tree)
  /\ UNCHANGED removed
  /\ UNCHANGED overlayVars

Align(n) ==
  /\ tree' = buildAlignedLinearTreeFromPairs(ThisKey, extractPairs(ThisKey, n))
  /\ last' = Op("align", n, NoId, tree)
  /\ removed' = [i \in Indices |-> IF removed[i] = "no" THEN "no" ELSE "aligned"]
  /\ UNCHANGED overlayVars

DeleteSubtree(targetId) ==
  /\ tree' = deleteSubtree(tree, targetId)
  /\ last' = Op("delete", -1, targetId, tree)
  /\ removed' = [i \in Indices |->
                   IF i \in IndicesOf(tree, DOMAIN tree.nodes \ DOMAIN tree'.nodes)
                   THEN "deleted" ELSE removed[i]]
  /\ UNCHANGED overlayVars

SetActive(id) ==
  /\ tree' = IF id \in DOMAIN tree.nodes THEN setActiveId(tree, id) ELSE tree
  /\ last' = Op("select", -1, id, tree)
  /\ UNCHANGED removed
  /\ UNCHANGED overlayVars

ToggleCollapse(id) ==
  /\ tree' = setCollapsed(tree, id, IsCollapsed(tree, id))
  /\ last' = Op("toggle", -1, id, tree)
  /\ UNCHANGED removed
  /\ UNCHANGED overlayVars

ExpandAll ==
  /\ tree' = clearCollapsed(tree)
  /\ last' = Op("expandAll", -1, NoId, tree)
  /\ UNCHANGED removed
  /\ UNCHANGED overlayVars

FocusOnActive ==
  /\ tree' = focusCollapsed(tree)
  /\ last' = Op("focus", -1, NoId, tree)
  /\ UNCHANGED removed
  /\ UNCHANGED overlayVars

\* the rows whose arrow toggles: listed (visible, not root) and with children
Toggleable(st) == {id \in Range(flatNodes(st)) : hasChildren(st, id)}

NextApi ==
  \/ \E n \in 0..MaxPairs : \E rnds \in RandDraws(tree, n) : Reconcile(n, rnds)
  \/ \E n \in 0..MaxPairs : Align(n)
  \/ \E id \in DOMAIN tree.nodes \cup {MissingId} : DeleteSubtree(id)
  \/ \E id \in DOMAIN tree.nodes \cup {MissingId} : SetActive(id)
  \/ \E id \in Toggleable(tree) : ToggleCollapse(id)
  \/ ExpandAll
  \/ FocusOnActive

SpecApi == InitApi /\ [][NextApi]_vars

(* --------------------------- React state queue ------------------------- *)

\* a queued setTree call: a value or an updater, with the priority React gave it
\* ("sync" inside a click handler, "default" inside a timer, observer or frame
\* callback, "none" once it has been applied and is only kept for replay)
SetTree(lane, next) ==
  [lane |-> lane, kind |-> "set", val |-> next, id |-> NoId, cur |-> FALSE]

Updater(lane, kind, id, cur) ==
  [lane |-> lane, kind |-> kind, val |-> <<>>, id |-> id, cur |-> cur]

applyUpdate(u, prev) ==
  CASE u.kind = "set" -> u.val
    [] u.kind = "select" -> setActiveId(prev, u.id)
    [] u.kind = "toggle" -> setCollapsed(prev, u.id, u.cur)
    [] u.kind = "expandAll" -> clearCollapsed(prev)
    [] OTHER -> focusCollapsed(prev)

\* one render's pass over the queue: an update whose priority the render does not
\* include is skipped and kept, with every update after it, to be replayed on the
\* state it was skipped at
RECURSIVE processQueue(_, _, _, _, _)
processQueue(st, newBase, kept, q, all) ==
  IF q = <<>>
  THEN [tree |-> st, base |-> IF kept = <<>> THEN st ELSE newBase, queue |-> kept]
  ELSE LET u == Head(q)
       IN IF u.lane = "default" /\ ~all
          THEN processQueue(st, IF kept = <<>> THEN st ELSE newBase,
                            Append(kept, u), Tail(q), all)
          ELSE processQueue(applyUpdate(u, st), newBase,
                            IF kept = <<>> THEN kept
                            ELSE Append(kept, [u EXCEPT !.lane = "none"]),
                            Tail(q), all)

rendered(q, all) == processQueue(base, base, <<>>, q, all)

HasDefault(q) == \E i \in 1..Len(q) : q[i].lane = "default"

(* ------------------------------ Overlay -------------------------------- *)

loadTree(convoKey) == decodeTree(storage[convoKey])

\* loadTree(key) ?? freshTree(key)
loadOrFresh(key) == IF loadTree(key) = <<>> THEN freshTree(key) ELSE loadTree(key)[1]

\* localStorage after saveTree(st)
saveTree(st) == [storage EXCEPT ![st.convoKey] = JSONstringify(st)]

Init ==
  /\ location = ThisKey
  /\ lastUrl = location
  /\ dom = [conv |-> location, n |-> 0]
  /\ storage = [k \in Keys |-> NoItem]
  /\ tree = freshTree(location)
  /\ base = tree
  /\ queue = <<>>
  /\ effects = {}
  /\ treeRef = tree
  /\ retryRef = 1
  /\ retryTimer = TRUE
  /\ retryFrame = FALSE
  /\ refreshFrame = TRUE
  /\ saveTimer = <<tree>>
  /\ aligning = "idle"
  /\ events = 0
  /\ ui = NoClick
  /\ last = Op("init", -1, NoId, freshTree(ThisKey))
  /\ removed = NotRemoved

\* refresh() without the budget test of line 660
refreshUnbounded(d, r0, rnds) ==
  LET st == treeRef
      key == location
      pairs == extractPairs(d.conv, d.n)
  IN IF st.convoKey # key
     THEN /\ queue' = Append(queue, SetTree("default", loadOrFresh(key)))
          /\ treeRef' = loadOrFresh(key)
          /\ retryRef' = 0
          /\ retryTimer' = FALSE
     ELSE IF Len(pairs) <= st.seenLinearCount
     THEN /\ retryRef' = r0 + 1
          /\ retryTimer' = TRUE
          /\ UNCHANGED <<queue, treeRef>>
     ELSE /\ retryRef' = 0
          /\ retryTimer' = FALSE
          /\ queue' = Append(queue,
                        SetTree("default", appendLoop(st, pairs, st.seenLinearCount, rnds)))
          /\ UNCHANGED treeRef

\* refresh() whose conversation switch leaves the retry counter and timer alone
refreshKeepsRetry(d, r0, rnds) ==
  LET st == treeRef
      key == location
      pairs == extractPairs(d.conv, d.n)
  IN IF st.convoKey # key
     THEN /\ queue' = Append(queue, SetTree("default", loadOrFresh(key)))
          /\ treeRef' = loadOrFresh(key)
          /\ UNCHANGED <<retryRef, retryTimer>>
     ELSE IF Len(pairs) <= st.seenLinearCount
     THEN /\ retryRef' = IF r0 < RetryBudget THEN r0 + 1 ELSE r0
          /\ retryTimer' = IF r0 < RetryBudget THEN TRUE ELSE retryTimer
          /\ UNCHANGED <<queue, treeRef>>
     ELSE /\ retryRef' = 0
          /\ retryTimer' = FALSE
          /\ queue' = Append(queue,
                        SetTree("default", appendLoop(st, pairs, st.seenLinearCount, rnds)))
          /\ UNCHANGED treeRef

\* refresh(), run with the page showing d and retryRef.current = r0
refresh(d, r0, rnds) ==
  LET st == treeRef
      key == location
      pairs == extractPairs(d.conv, d.n)
  IN IF st.convoKey # key
     THEN /\ queue' = Append(queue, SetTree("default", loadOrFresh(key)))
          /\ treeRef' = loadOrFresh(key)
          /\ retryRef' = 0
          /\ retryTimer' = FALSE
     ELSE IF Len(pairs) <= st.seenLinearCount
     THEN /\ retryRef' = IF r0 < RetryBudget THEN r0 + 1 ELSE r0
          /\ retryTimer' = IF r0 < RetryBudget THEN TRUE ELSE retryTimer
          /\ UNCHANGED <<queue, treeRef>>
     ELSE /\ retryRef' = 0
          /\ retryTimer' = FALSE
          /\ queue' = Append(queue,
                        SetTree("default", appendLoop(st, pairs, st.seenLinearCount, rnds)))
          /\ UNCHANGED treeRef

Draws(d) == RandDraws(treeRef, d.n)

\* the host page navigates to another conversation
Navigate(k) ==
  /\ events < MaxEvents
  /\ events' = events + 1
  /\ UNCHANGED ui
  /\ k # location
  /\ location' = k
  /\ UNCHANGED <<tree, base, queue, effects, treeRef, retryRef, retryTimer, retryFrame,
                 refreshFrame, saveTimer, storage, lastUrl, dom, aligning, history>>

\* the page renders n pairs of the conversation its URL names; the
\* MutationObserver calls refresh
DomMutation(n) ==
  /\ events < MaxEvents
  /\ events' = events + 1
  /\ UNCHANGED ui
  /\ dom' = [conv |-> location, n |-> n]
  /\ \E rnds \in Draws(dom') : refresh(dom', retryRef, rnds)
  /\ Len(queue') <= MaxQueue
  /\ UNCHANGED <<tree, base, effects, retryFrame, refreshFrame, saveTimer, storage,
                 location, lastUrl, aligning, history>>

\* the 700 ms interval sees a new URL
UrlPoll ==
  /\ UNCHANGED <<events, ui>>
  /\ location # lastUrl
  /\ lastUrl' = location
  /\ \E rnds \in Draws(dom) : refresh(dom, 0, rnds)
  /\ Len(queue') <= MaxQueue
  /\ UNCHANGED <<tree, base, effects, retryFrame, refreshFrame, saveTimer, storage,
                 location, dom, aligning, history>>

\* the animation frame requested by the activeId effect calls refresh
RefreshFrame ==
  /\ UNCHANGED <<events, ui>>
  /\ refreshFrame
  /\ refreshFrame' = FALSE
  /\ \E rnds \in Draws(dom) : refresh(dom, retryRef, rnds)
  /\ Len(queue') <= MaxQueue
  /\ UNCHANGED <<tree, base, effects, retryFrame, saveTimer, storage,
                 location, lastUrl, dom, aligning, history>>

\* the 90 ms retry timer as an interval: it stays armed after it fired
RetryTimerRepeats ==
  /\ UNCHANGED <<events, ui>>
  /\ retryTimer
  /\ ~retryFrame
  /\ retryTimer' = TRUE
  /\ retryFrame' = TRUE
  /\ UNCHANGED <<tree, base, queue, effects, treeRef, retryRef, refreshFrame, saveTimer,
                 storage, location, lastUrl, dom, aligning, history>>

\* the 90 ms retry timer fires and requests an animation frame
RetryTimerFires ==
  /\ UNCHANGED <<events, ui>>
  /\ retryTimer
  /\ ~retryFrame
  /\ retryTimer' = FALSE
  /\ retryFrame' = TRUE
  /\ UNCHANGED <<tree, base, queue, effects, treeRef, retryRef, refreshFrame, saveTimer,
                 storage, location, lastUrl, dom, aligning, history>>

\* the retry's animation frame callback
RetryFrame ==
  /\ UNCHANGED <<events, ui>>
  /\ retryFrame
  /\ retryFrame' = FALSE
  /\ LET pairs2 == extractPairs(dom.conv, dom.n)
     IN IF Len(pairs2) > treeRef.seenLinearCount
        THEN /\ \E rnds \in Draws(dom) :
                  queue' = Append(queue,
                    SetTree("default",
                            appendLoop(treeRef, pairs2, treeRef.seenLinearCount, rnds)))
             /\ retryRef' = 0
        ELSE UNCHANGED <<queue, retryRef>>
  /\ Len(queue') <= MaxQueue
  /\ UNCHANGED <<tree, base, effects, treeRef, retryTimer, refreshFrame, saveTimer,
                 storage, location, lastUrl, dom, aligning, history>>

\* React renders the queued updates of a timer, observer or frame callback;
\* the effects of the render are left to run
Render ==
  /\ UNCHANGED <<events, ui>>
  /\ queue # <<>>
  /\ effects = {}
  /\ LET r == rendered(queue, TRUE)
     IN /\ tree' = r.tree
        /\ base' = r.base
        /\ queue' = r.queue
        /\ effects' = {"tree"} \cup
                      (IF r.tree.activeId # tree.activeId THEN {"activeId"} ELSE {})
  /\ aligning' = IF aligning = "done" THEN "idle" ELSE aligning
  /\ UNCHANGED <<treeRef, retryRef, retryTimer, retryFrame, refreshFrame, saveTimer,
                 storage, location, lastUrl, dom, history>>

\* the effects on [tree] and [tree.activeId] run: treeRef.current = tree, the
\* save timer is re-armed, an animation frame is requested for refresh
RunEffects ==
  /\ UNCHANGED <<events, ui>>
  /\ effects # {}
  /\ effects' = {}
  /\ treeRef' = tree
  /\ saveTimer' = <<tree>>
  /\ refreshFrame' = (refreshFrame \/ "activeId" \in effects)
  /\ UNCHANGED <<tree, base, queue, retryRef, retryTimer, retryFrame, storage,
                 location, lastUrl, dom, aligning, history>>

\* the 180 ms save timer fires
SaveTimerFires ==
  /\ UNCHANGED <<events, ui>>
  /\ saveTimer # <<>>
  /\ storage' = saveTree(stripTreeForPersist(saveTimer[1]))
  /\ saveTimer' = <<>>
  /\ UNCHANGED <<tree, base, queue, effects, treeRef, retryRef, retryTimer, retryFrame,
                 refreshFrame, location, lastUrl, dom, aligning, history>>

\* flushSync that leaves the render's effects for later: treeRef.current keeps the
\* tree from before the click
flushSyncKeepsRef(q, all) ==
  LET r == rendered(q, all)
  IN /\ Len(q) <= MaxQueue
     /\ tree' = r.tree
     /\ base' = r.base
     /\ queue' = r.queue
     /\ effects' = effects \cup {"tree"} \cup
                   (IF r.tree.activeId # tree.activeId THEN {"activeId"} ELSE {})
     /\ UNCHANGED <<treeRef, saveTimer, refreshFrame>>
     /\ aligning' = IF all /\ aligning = "done" THEN "idle" ELSE aligning

\* the end of a click handler that queued q: pending effects run, React renders
\* the click's updates (with the waiting default-priority ones or without them)
\* and runs the render's effects before the next event
flushSync(q, all) ==
  LET r == rendered(q, all)
  IN /\ Len(q) <= MaxQueue
     /\ tree' = r.tree
     /\ base' = r.base
     /\ queue' = r.queue
     /\ effects' = {}
     /\ treeRef' = r.tree
     /\ saveTimer' = <<r.tree>>
     /\ refreshFrame' = (refreshFrame \/ "activeId" \in effects
                           \/ r.tree.activeId # tree.activeId)
     /\ aligning' = IF all /\ aligning = "done" THEN "idle" ELSE aligning

\* the renders a click can get: alone always, with the default-priority updates
\* when there are any
Flushes(q) == IF HasDefault(q) THEN {TRUE, FALSE} ELSE {TRUE}

\* a click handler that returned before any setTree
Returned ==
  UNCHANGED <<tree, base, queue, effects, treeRef, saveTimer, refreshFrame, aligning>>

\* a click on a row of the rendered structure list
selectActive(id) ==
  /\ events < MaxEvents
  /\ events' = events + 1
  /\ id \in Range(flatNodes(tree))
  /\ ui' = Clicked("selectActive", TargetIn(treeRef, id), FALSE, "none")
  /\ IF id \notin DOMAIN treeRef.nodes
     THEN Returned
     ELSE \E all \in Flushes(queue) :
            flushSync(Append(queue, Updater("sync", "select", id, FALSE)), all)
  /\ UNCHANGED <<retryRef, retryTimer, retryFrame, storage, location, lastUrl, dom,
                 history>>

\* a click on the arrow of a rendered row that has children
toggleCollapseNode(id) ==
  /\ events < MaxEvents
  /\ events' = events + 1
  /\ id \in Toggleable(tree)
  /\ ui' = Clicked("toggleCollapseNode", TargetIn(treeRef, id), FALSE, "none")
  /\ \E all \in Flushes(queue) :
       flushSync(Append(queue, Updater("sync", "toggle", id, IsCollapsed(treeRef, id))), all)
  /\ UNCHANGED <<retryRef, retryTimer, retryFrame, storage, location, lastUrl, dom,
                 history>>

expandAllNodes ==
  /\ events < MaxEvents
  /\ events' = events + 1
  /\ tree.collapsedIds # EmptyMap
  /\ ui' = Clicked("expandAllNodes", "none", FALSE, "none")
  /\ \E all \in Flushes(queue) :
       flushSync(Append(queue, Updater("sync", "expandAll", NoId, FALSE)), all)
  /\ UNCHANGED <<retryRef, retryTimer, retryFrame, storage, location, lastUrl, dom,
                 history>>

collapseAllOtherNodes ==
  /\ events < MaxEvents
  /\ events' = events + 1
  /\ ui' = Clicked("collapseAllOtherNodes", "none", FALSE, "none")
  /\ \E all \in Flushes(queue) :
       flushSync(Append(queue, Updater("sync", "focus", NoId, FALSE)), all)
  /\ UNCHANGED <<retryRef, retryTimer, retryFrame, storage, location, lastUrl, dom,
                 history>>

\* deleteActiveNode that does not wait for the answer to its dialog
deleteActiveNodeUnasked(ok) ==
  /\ events < MaxEvents
  /\ events' = events + 1
  /\ LET st == treeRef
         id == st.activeId
     IN IF id = ROOT_ID
        THEN /\ ui' = Clicked("deleteActiveNode", "root", TRUE, "none")
             /\ Returned
             /\ UNCHANGED storage
        ELSE LET next == deleteSubtree(st, id)
             IN /\ ui' = Clicked("deleteActiveNode", TargetIn(st, id), FALSE,
                                 IF ok THEN "ok" ELSE "cancel")
                /\ \E all \in Flushes(queue) :
                     flushSync(Append(queue, SetTree("sync", next)), all)
                /\ storage' = saveTree(stripTreeForPersist(next))
  /\ UNCHANGED <<retryRef, retryTimer, retryFrame, location, lastUrl, dom, history>>

\* the Delete button; ok is the user's answer to the confirm dialog, if it comes
\* to that
deleteActiveNode(ok) ==
  /\ events < MaxEvents
  /\ events' = events + 1
  /\ LET st == treeRef
         id == st.activeId
     IN IF id = ROOT_ID
        THEN /\ ui' = Clicked("deleteActiveNode", "root", TRUE, "none")
             /\ Returned
             /\ UNCHANGED storage
        ELSE IF ~ok
        THEN /\ ui' = Clicked("deleteActiveNode", TargetIn(st, id), FALSE, "cancel")
             /\ Returned
             /\ UNCHANGED storage
        ELSE LET next == deleteSubtree(st, id)
             IN /\ ui' = Clicked("deleteActiveNode", TargetIn(st, id), FALSE, "ok")
                /\ \E all \in Flushes(queue) :
                     flushSync(Append(queue, SetTree("sync", next)), all)
                /\ storage' = saveTree(stripTreeForPersist(next))
  /\ UNCHANGED <<retryRef, retryTimer, retryFrame, location, lastUrl, dom, history>>

\* the Align button; ok is the user's answer to the confirm dialog, if it comes
\* to that. Confirmed, alignToDom starts scrolling the page
alignToDomStart(ok) ==
  /\ events < MaxEvents
  /\ events' = events + 1
  /\ IF aligning # "idle"
     THEN /\ ui' = Clicked("alignToDom", "none", FALSE, "none")
          /\ UNCHANGED aligning
     ELSE /\ ui' = Clicked("alignToDom", "none", FALSE, IF ok THEN "ok" ELSE "cancel")
          /\ aligning' = IF ok THEN "running" ELSE aligning
  /\ UNCHANGED <<tree, base, queue, effects, treeRef, retryRef, retryTimer, retryFrame,
                 refreshFrame, saveTimer, storage, location, lastUrl, dom, history>>

\* alignToDom after its last wait: rebuild from the page, install, save
alignToDomFinish ==
  /\ UNCHANGED <<events, ui>>
  /\ aligning = "running"
  /\ Len(queue) < MaxQueue
  /\ LET next == buildAlignedLinearTreeFromPairs(location, extractPairs(dom.conv, dom.n))
     IN /\ queue' = Append(queue, SetTree("default", next))
        /\ treeRef' = next
        /\ storage' = saveTree(stripTreeForPersist(next))
  /\ aligning' = "done"
  /\ UNCHANGED <<tree, base, effects, retryRef, retryTimer, retryFrame, refreshFrame,
                 saveTimer, location, lastUrl, dom, history>>

Next ==
  \/ \E k \in Keys : Navigate(k)
  \/ \E n \in 0..MaxPairs : DomMutation(n)
  \/ UrlPoll
  \/ RefreshFrame
  \/ RetryTimerFires
  \/ RetryFrame
  \/ Render
  \/ RunEffects
  \/ SaveTimerFires
  \/ \E id \in DOMAIN tree.nodes : selectActive(id)
  \/ \E id \in DOMAIN tree.nodes : toggleCollapseNode(id)
  \/ expandAllNodes
  \/ collapseAllOtherNodes
  \/ \E ok \in BOOLEAN : deleteActiveNode(ok)
  \/ \E ok \in BOOLEAN : alignToDomStart(ok)
  \/ alignToDomFinish

Spec == Init /\ [][Next]_vars

(* ------------------------- loading stored texts ------------------------ *)

\* trees a session of conversation key can have saved: chains of appended
\* pairs and aligned chains, with each node selected, each row collapsed and
\* expanded again, and focused
SessionTrees(key) ==
  LET grown == UNION {
        {appendLoop(freshTree(key), extractPairs(key, n), 0, [i \in 0..(n - 1) |-> 1]),
         buildAlignedLinearTreeFromPairs(key, extractPairs(key, n))} : n \in 0..MaxPairs}
      selected == UNION {{setActiveId(t, id) : id \in DOMAIN t.nodes} : t \in grown}
      toggled == UNION {UNION {{setCollapsed(t, id, FALSE), setCollapsed(t, id, TRUE)} :
                                 id \in Toggleable(t)} : t \in selected}
  IN selected \cup toggled \cup {focusCollapsed(t) : t \in selected}

\* the text of a snapshot written before collapsedIds existed
WithoutCollapsedIds(j) ==
  JsonObject([k \in DOMAIN j[2] \ {"collapsedIds"} |-> j[2][k]])

\* the texts saveTree writes for the trees of SessionTrees
SavedTexts(key) == {JSONstringify(stripTreeForPersist(t)) : t \in SessionTrees(key)}

\* texts that are no snapshot of a tree: nothing, the empty text, a text that is
\* not JSON, and JSON texts of other values (null, {}, an object with convoKey only)
DamagedTexts(key) ==
  {NoItem, EmptyText, Unparsable, JsonNull, JsonObject(EmptyMap),
   JsonObject([convoKey |-> JsonString(key)])}

\* what localStorage can hold under the conversation's key when the overlay mounts
StoredTexts(key) ==
  SavedTexts(key) \cup {WithoutCollapsedIds(j) : j \in SavedTexts(key)}
    \cup DamagedTexts(key)

\* the Overlay mounted with nothing stored
InitLoad == Init

\* between two page loads, localStorage comes to hold s under the conversation's key
Stored(s) ==
  /\ storage' = [storage EXCEPT ![location] = s]
  /\ storage' # storage
  /\ UNCHANGED <<tree, base, queue, effects, treeRef, retryRef, retryTimer, retryFrame,
                 refreshFrame, saveTimer, location, lastUrl, dom, aligning, events, ui,
                 history>>

\* the page loads and the Overlay mounts: useState(() => loadTree(key) ?? freshTree(key))
Mount ==
  /\ tree' = loadOrFresh(location)
  /\ base' = tree'
  /\ treeRef' = tree'
  /\ queue' = <<>>
  /\ effects' = {}
  /\ saveTimer' = <<tree'>>
  /\ last' = Op("mount", -1, NoId, storage[location])
  /\ UNCHANGED <<retryRef, retryTimer, retryFrame, refreshFrame, storage, location,
                 lastUrl, dom, aligning, events, ui, removed>>

NextLoad ==
  \/ \E s \in StoredTexts(location) : Stored(s)
  \/ Mount

SpecLoad == InitLoad /\ [][NextLoad]_vars

(* ------------------------------ claims --------------------------------- *)

\* the ids of st on the parentId chain from id up to root, id included
RECURSIVE AncestorsOrSelf(_, _, _)
AncestorsOrSelf(st, id, guard) ==
  IF id \notin DOMAIN st.nodes \/ id \in guard THEN {}
  ELSE IF id = ROOT_ID THEN {id}
       ELSE {id} \cup AncestorsOrSelf(st, st.nodes[id].parentId, guard \cup {id})

\* the subtree of target, by parent links
SubtreeOf(st, target) ==
  {x \in DOMAIN st.nodes : target \in AncestorsOrSelf(st, x, {})}

NoDuplicates(s) == \A i, j \in 1..Len(s) : s[i] = s[j] => i = j

NonRoot(st) == DOMAIN st.nodes \ {ROOT_ID}

WithIndex(st, ids, i) == {id \in ids : st.nodes[id].linearIndex = i}

ValidDelete == last.op = "delete" /\ last.id \in NonRoot(last.pre)

\* C1: when pairs.length > seenLinearCount, reconcile appends one node per unseen
\* index, in increasing order: the first as the last child of the node that was
\* active (root if activeId did not resolve), each next as the only child of the
\* one before; the last becomes activeId, seenLinearCount = pairs.length (never
\* lower than before), and nothing else changes.
C1_ReconcileAppendsChain ==
  (last.op = "reconcile" /\ last.n > last.pre.seenLinearCount) =>
    LET pre == last.pre
        s == pre.seenLinearCount
        anchor == IF pre.activeId \in DOMAIN pre.nodes THEN pre.activeId ELSE ROOT_ID
        new == DOMAIN tree.nodes \ DOMAIN pre.nodes
        nodeAt(i) == CHOOSE id \in new : tree.nodes[id].linearIndex = i
    IN /\ tree.seenLinearCount = last.n
       /\ tree.seenLinearCount >= s
       /\ DOMAIN pre.nodes \subseteq DOMAIN tree.nodes
       /\ Cardinality(new) = last.n - s
       /\ \A i \in s..(last.n - 1) : Cardinality(WithIndex(tree, new, i)) = 1
       /\ \A i \in s..(last.n - 1) :
            LET id == nodeAt(i)
                p == IF i = s THEN anchor ELSE nodeAt(i - 1)
            IN /\ tree.nodes[id].id = id
               /\ tree.nodes[id].parentId = p
               /\ tree.nodes[id].depth = tree.nodes[p].depth + 1
               /\ tree.nodes[id].summary = makeSummaryFromUserText(UserTextOf(i))
               /\ tree.nodes[p].children =
                    (IF i = s THEN pre.nodes[anchor].children ELSE <<>>) \o <<id>>
               /\ (i = last.n - 1 => tree.nodes[id].children = <<>>)
       /\ tree.activeId = nodeAt(last.n - 1)
       /\ \A id \in DOMAIN pre.nodes \ {anchor} : tree.nodes[id] = pre.nodes[id]
       /\ tree.nodes[anchor] =
            [pre.nodes[anchor] EXCEPT !.children = tree.nodes[anchor].children]
       /\ tree.collapsedIds = pre.collapsedIds
       /\ tree.convoKey = pre.convoKey

\* C1 witness: two pairs were appended in one call under an active node that
\* already had a child
C1_Witness ==
  /\ last.op = "reconcile"
  /\ last.n >= last.pre.seenLinearCount + 2
  /\ last.pre.nodes[last.pre.activeId].children # <<>>
  /\ tree.seenLinearCount = last.n

\* C2: reconciling with pairs.length <= seenLinearCount changes nothing
C2_ReconcileIdempotent ==
  (last.op = "reconcile" /\ last.n <= last.pre.seenLinearCount) => tree = last.pre

\* C2 witness: the same pairs reconciled a second time, on a tree with branches
\* and a collapse flag
C2_Witness ==
  /\ last.op = "reconcile"
  /\ last.n = last.pre.seenLinearCount
  /\ last.n >= 2
  /\ tree.collapsedIds # EmptyMap
  /\ tree.activeId # ROOT_ID

\* C3 as stated: no node made by reconcile has a linear index that deleteSubtree
\* removed at any earlier time
C3_NoResurrectionEver ==
  \A id \in NonRoot(tree) :
    id[1] = "n" => removed[tree.nodes[id].linearIndex] = "no"

\* C3 as amended: no node made by reconcile has a linear index that deleteSubtree
\* removed since the last align
C3_NoResurrectionSinceAlign ==
  \A id \in NonRoot(tree) :
    id[1] = "n" => removed[tree.nodes[id].linearIndex] # "deleted"

\* C3 witness: after a delete, a reconcile with a longer pairs sequence appended
\* beyond the deleted indices
C3_Witness ==
  /\ last.op = "reconcile"
  /\ tree # last.pre
  /\ \E i \in Indices : removed[i] = "deleted" /\ i < last.pre.seenLinearCount

\* C4 as stated: no operation lowers seenLinearCount
C4_SeenNeverDecreases == tree.seenLinearCount >= last.pre.seenLinearCount

\* C4 as amended: reconcile, deleteSubtree, select and the collapse operations
\* never lower seenLinearCount (only reconcile changes it); align sets it to
\* pairs.length, whatever it was
C4_SeenOnlyLoweredByAlign ==
  /\ last.op \in {"delete", "select", "toggle", "expandAll", "focus"} =>
       tree.seenLinearCount = last.pre.seenLinearCount
  /\ last.op = "reconcile" => tree.seenLinearCount >= last.pre.seenLinearCount
  /\ last.op = "align" => tree.seenLinearCount = last.n

\* C4 witness: a delete removed nodes and left seenLinearCount above every
\* remaining index
C4_Witness ==
  /\ ValidDelete
  /\ Cardinality(DOMAIN last.pre.nodes \ DOMAIN tree.nodes) >= 2
  /\ tree.seenLinearCount = MaxPairs

\* C5: root is present; every non-root node's parent exists; c is listed in
\* X.children exactly when c is an existing non-root node whose parentId is X, and
\* then once; every node is reachable from root
C5_TreeIntegrity ==
  /\ ROOT_ID \in DOMAIN tree.nodes
  /\ \A id \in DOMAIN tree.nodes : tree.nodes[id].id = id
  /\ \A id \in NonRoot(tree) : tree.nodes[id].parentId \in DOMAIN tree.nodes
  /\ \A x \in DOMAIN tree.nodes :
       /\ NoDuplicates(tree.nodes[x].children)
       /\ Range(tree.nodes[x].children) =
            {c \in NonRoot(tree) : tree.nodes[c].parentId = x}
  /\ Range(collectSubtreeIds(tree, ROOT_ID)) = DOMAIN tree.nodes
  /\ \A id \in DOMAIN tree.nodes : ROOT_ID \in AncestorsOrSelf(tree, id, {})

\* C5 witness: a branching tree from which a delete has just removed a subtree
C5_Witness ==
  /\ ValidDelete
  /\ Len(last.pre.nodes[ROOT_ID].children) >= 2
  /\ Cardinality(DOMAIN last.pre.nodes \ DOMAIN tree.nodes) >= 2
  /\ NonRoot(tree) # {}

\* the node of st with linear index i
AtIndex(st, i) == CHOOSE id \in NonRoot(st) : st.nodes[id].linearIndex = i

\* C7: align returns root plus pairs.length nodes in one chain: node i has
\* linearIndex i and is the sole child of node i-1 (node 0 of root), the last is
\* active (root when there are no pairs), seenLinearCount = pairs.length and
\* collapsedIds is empty
C7_AlignBuildsOneChain ==
  last.op = "align" =>
    LET n == last.n
        up(i) == IF i = 0 THEN ROOT_ID ELSE AtIndex(tree, i - 1)
    IN /\ Cardinality(DOMAIN tree.nodes) = n + 1
       /\ ROOT_ID \in DOMAIN tree.nodes
       /\ tree.nodes[ROOT_ID] = [RootNode EXCEPT !.children = tree.nodes[ROOT_ID].children]
       /\ \A i \in 0..(n - 1) : Cardinality(WithIndex(tree, NonRoot(tree), i)) = 1
       /\ \A i \in 0..(n - 1) :
            /\ tree.nodes[AtIndex(tree, i)].parentId = up(i)
            /\ tree.nodes[up(i)].children = <<AtIndex(tree, i)>>
            /\ tree.nodes[AtIndex(tree, i)].depth = i + 1
       /\ (n > 0 => tree.nodes[AtIndex(tree, n - 1)].children = <<>>)
       /\ (n = 0 => tree.nodes[ROOT_ID].children = <<>>)
       /\ tree.activeId = (IF n > 0 THEN AtIndex(tree, n - 1) ELSE ROOT_ID)
       /\ tree.seenLinearCount = n
       /\ tree.collapsedIds = EmptyMap
       /\ tree.convoKey = last.pre.convoKey

\* C7 witness: align ran on a tree that had branches, a collapse flag and more
\* nodes than the page shows pairs
C7_Witness ==
  /\ last.op = "align"
  /\ last.n = 2
  /\ Len(last.pre.nodes[ROOT_ID].children) >= 2
  /\ last.pre.collapsedIds # EmptyMap
  /\ last.pre.seenLinearCount = 3

\* the tree align must return for n pairs, written out node by node
AlignedTree(key, n) ==
  [convoKey |-> key,
   seenLinearCount |-> n,
   activeId |-> IF n = 0 THEN <<"root">> ELSE <<"n_align", n - 1>>,
   collapsedIds |-> EmptyMap,
   nodes |-> [x \in {<<"root">>} \cup {<<"n_align", i>> : i \in 0..(n - 1)} |->
     IF x = <<"root">>
     THEN [RootNode EXCEPT !.children = IF n = 0 THEN <<>> ELSE << <<"n_align", 0>> >>]
     ELSE [id |-> x,
           parentId |-> IF x[2] = 0 THEN <<"root">> ELSE <<"n_align", x[2] - 1>>,
           children |-> IF x[2] = n - 1 THEN <<>> ELSE << <<"n_align", x[2] + 1>> >>,
           depth |-> x[2] + 1,
           linearIndex |-> x[2],
           summary |-> makeSummaryFromUserText(UserTextOf(x[2])),
           userHtml |-> <<>>,
           assistantHtml |-> <<>>]]]

\* C8: the tree align returns is a function of the pairs alone: node i has the id
\* n_align_i, and ids, links and activeId are the same whatever tree came before
C8_AlignDeterministic ==
  last.op = "align" => tree = AlignedTree(last.pre.convoKey, last.n)

\* C8 witness: align ran with the same pairs on a tree that a previous align had
\* built and later operations had changed
C8_Witness ==
  /\ last.op = "align"
  /\ last.n = 2
  /\ last.pre.seenLinearCount = 3
  /\ <<"n_align", 0>> \in DOMAIN last.pre.nodes
  /\ <<"n_align", 1>> \notin DOMAIN last.pre.nodes
  /\ \E id \in DOMAIN last.pre.nodes : id[1] = "n"

\* C9: deleteSubtree of an existing non-root target removes exactly the target and
\* its descendants, takes the target out of its parent's children keeping the
\* other children in order, changes no other node, and leaves no deleted id in
\* collapsedIds (the other flags stay)
C9_DeleteRemovesExactlySubtree ==
  ValidDelete =>
    LET pre == last.pre
        target == last.id
        p == pre.nodes[target].parentId
        gone == SubtreeOf(pre, target)
    IN /\ DOMAIN tree.nodes = DOMAIN pre.nodes \ gone
       /\ tree.nodes[p] =
            [pre.nodes[p] EXCEPT
               !.children = SelectSeq(pre.nodes[p].children, LAMBDA c : c # target)]
       /\ \A id \in DOMAIN tree.nodes \ {p} : tree.nodes[id] = pre.nodes[id]
       /\ DOMAIN tree.collapsedIds = DOMAIN pre.collapsedIds \ gone
       /\ \A id \in DOMAIN tree.collapsedIds :
            tree.collapsedIds[id] = pre.collapsedIds[id]

\* C9 witness: the target had a grandchild, a sibling and a collapse flag
C9_Witness ==
  /\ ValidDelete
  /\ Cardinality(SubtreeOf(last.pre, last.id)) >= 2
  /\ Len(last.pre.nodes[last.pre.nodes[last.id].parentId].children) >= 2
  /\ last.id \in DOMAIN last.pre.collapsedIds
  /\ tree.nodes[ROOT_ID].children # <<>>

\* C10 as stated: after a delete, activeId is the target's parent when it was
\* inside the deleted set, and is unchanged when it was outside
C10_ActiveMovesOnlyIfDeleted ==
  ValidDelete =>
    IF last.pre.activeId \in SubtreeOf(last.pre, last.id)
    THEN tree.activeId = last.pre.nodes[last.id].parentId
    ELSE tree.activeId = last.pre.activeId

\* C10 as amended: after a delete, activeId is the target's parent, whether it
\* was inside the deleted set or not
C10_ActiveMovesToParent ==
  ValidDelete => tree.activeId = last.pre.nodes[last.id].parentId

\* C10 witness: the active node was a descendant of the target, and the target's
\* parent, not root, became active
C10_Witness ==
  /\ ValidDelete
  /\ last.pre.activeId \in SubtreeOf(last.pre, last.id) \ {last.id}
  /\ tree.activeId # ROOT_ID
  /\ tree.activeId = last.pre.nodes[last.id].parentId

\* C6: in every reachable state activeId names an existing node, in the rendered
\* tree, in treeRef.current and in the state the queued updates apply to
C6_ActiveIdResolves ==
  /\ tree.activeId \in DOMAIN tree.nodes
  /\ treeRef.activeId \in DOMAIN treeRef.nodes
  /\ base.activeId \in DOMAIN base.nodes

\* the last operation named root or an id naming no node
InvalidTarget == last.id = ROOT_ID \/ last.id \notin DOMAIN last.pre.nodes

StrictAncestors(st, id) ==
  IF id = ROOT_ID \/ id \notin DOMAIN st.nodes THEN {}
  ELSE AncestorsOrSelf(st, st.nodes[id].parentId, {id})

\* C14: a node is hidden exactly when some strict ancestor (up to and including
\* root) is flagged collapsed; the node's own flag does not hide it
C14_HiddenIffAncestorCollapsed ==
  \A id \in DOMAIN tree.nodes :
    isHiddenByCollapsed(tree, id) <=>
      \E a \in StrictAncestors(tree, id) : IsCollapsed(tree, a)

C14_Witness ==
  \E id \in NonRoot(tree) :
    /\ IsCollapsed(tree, id)
    /\ ~isHiddenByCollapsed(tree, id)
    /\ \E c \in Range(tree.nodes[id].children) :
         /\ isHiddenByCollapsed(tree, c)
         /\ ~IsCollapsed(tree, c)
    /\ \E x \in DOMAIN tree.collapsedIds : ~tree.collapsedIds[x]

\* the rows listed after the last operation
Listed == Range(flatNodes(tree))

\* the nodes on the path from root to the active node of st, root excluded
OnPath(st) == Range(pathToRoot(st))

ChildrenOf(st, ids) == UNION {Range(st.nodes[p].children) : p \in ids \cap DOMAIN st.nodes}

\* C15 as stated: after focusOnActive the listed rows are exactly the path to the
\* active node and the active node's direct children
C15_FocusShowsPathAndChildrenOnly ==
  last.op = "focus" =>
    Listed = OnPath(tree) \cup ChildrenOf(tree, {tree.activeId})

\* C15: after focusOnActive the listed rows are exactly the path to the active
\* node, the direct children of the active node and the direct children of every
\* node on the path (the siblings of the path stay listed, collapsed); every
\* deeper node is hidden
C15_FocusShowsPathAndCollapsedSiblings ==
  last.op = "focus" =>
    Listed = (OnPath(tree) \cup ChildrenOf(tree, OnPath(tree) \cup {ROOT_ID}))

C15_Witness ==
  /\ last.op = "focus"
  /\ tree.activeId # ROOT_ID
  /\ \E x \in NonRoot(tree) : x \notin Listed
  /\ \E x \in Listed : x \notin OnPath(tree) /\ x \notin ChildrenOf(tree, {tree.activeId})

\* C16: toggleCollapse, expandAll and focusOnActive change collapsedIds only;
\* selectActive on an existing id changes activeId only
C16_CollapseOpsRewriteCollapsedOnly ==
  /\ last.op \in {"toggle", "expandAll", "focus"} =>
       /\ tree.nodes = last.pre.nodes
       /\ tree.activeId = last.pre.activeId
       /\ tree.seenLinearCount = last.pre.seenLinearCount
       /\ tree.convoKey = last.pre.convoKey
  /\ (last.op = "select" /\ last.id \in DOMAIN last.pre.nodes) =>
       /\ tree.nodes = last.pre.nodes
       /\ tree.collapsedIds = last.pre.collapsedIds
       /\ tree.seenLinearCount = last.pre.seenLinearCount
       /\ tree.convoKey = last.pre.convoKey
       /\ tree.activeId = last.id

C16_Witness ==
  /\ last.op = "toggle"
  /\ last.id # last.pre.activeId
  /\ tree.collapsedIds # last.pre.collapsedIds
  /\ Cardinality(DOMAIN tree.nodes) >= 3

\* C17: loading the text saved from strip(state) gives strip(state), field for
\* field, with the markup fields empty
C17_RoundTrip ==
  LET stripped == stripTreeForPersist(tree)
      loaded == decodeTree(JSONstringify(stripped))
  IN /\ loaded # <<>>
     /\ loaded[1] = stripped
     /\ \A id \in DOMAIN loaded[1].nodes :
          /\ loaded[1].nodes[id].userHtml = <<>>
          /\ loaded[1].nodes[id].assistantHtml = <<>>

C17_Witness ==
  /\ Cardinality(DOMAIN tree.nodes) >= 3
  /\ tree.activeId # ROOT_ID
  /\ \E x \in DOMAIN tree.collapsedIds : tree.collapsedIds[x]
  /\ \E x \in DOMAIN tree.collapsedIds : ~tree.collapsedIds[x]
  /\ \E id \in DOMAIN tree.nodes : tree.nodes[id].userHtml # <<>>
  /\ decodeTree(JSONstringify(stripTreeForPersist(tree))) # <<>>

\* C12: every delete or select aimed at root or at an id naming no node shows the
\* user a notice
C12_InvalidTargetNoticed ==
  (ui.handler \in {"selectActive", "deleteActiveNode"} /\ ui.target \in {"root", "missing"})
    => ui.notice

\* the step is a run of the click handler named h
RunOf(h) == events' # events /\ ui'.at = events' /\ ui'.handler = h

\* C13: a run of deleteActiveNode or alignToDom whose dialog was not confirmed
\* changes neither the TreeState (rendered, queued or in treeRef.current) nor
\* localStorage, and alignToDom rebuilds the tree only in an invocation whose
\* dialog was confirmed
C13_ConfirmationGating ==
  [][/\ ((RunOf("deleteActiveNode") \/ RunOf("alignToDom")) /\ ui'.confirm # "ok")
          => UNCHANGED <<tree, base, queue, treeRef, storage, aligning>>
     /\ (aligning # "running" /\ aligning' = "running")
          => (RunOf("alignToDom") /\ ui'.confirm = "ok")
     /\ (aligning' = "done" /\ aligning # "done") => aligning = "running"]_vars

C13_Witness ==
  /\ ui.handler = "deleteActiveNode"
  /\ ui.confirm = "cancel"
  /\ ui.target = "ok"
  /\ treeRef.activeId # ROOT_ID
  /\ storage[treeRef.convoKey] # JSONstringify(stripTreeForPersist(
                                    deleteSubtree(treeRef, treeRef.activeId)))

\* t is src with the markup of every node cleared, and nothing else changed
StrippedCopy(t, src) ==
  /\ t.convoKey = src.convoKey
  /\ t.seenLinearCount = src.seenLinearCount
  /\ t.activeId = src.activeId
  /\ t.collapsedIds = src.collapsedIds
  /\ DOMAIN t.nodes = DOMAIN src.nodes
  /\ \A id \in DOMAIN t.nodes :
       /\ t.nodes[id].userHtml = <<>>
       /\ t.nodes[id].assistantHtml = <<>>
       /\ t.nodes[id] = [src.nodes[id] EXCEPT !.userHtml = <<>>, !.assistantHtml = <<>>]

\* C18: every step that writes localStorage (the debounced save, the save after
\* align, the save after delete) stores, under the state's conversation key, a
\* text that decodes to the in-memory state it was taken from with the markup of
\* every node cleared, and the debounced save leaves the in-memory state as it was
C18_StoredStateIsStripped ==
  [][\A k \in Keys :
       storage'[k] # storage[k] =>
         LET loaded == decodeTree(storage'[k])
             taken == IF saveTimer # <<>> /\ saveTimer' = <<>> THEN saveTimer[1] ELSE treeRef'
         IN /\ loaded # <<>>
            /\ taken.convoKey = k
            /\ StrippedCopy(loaded[1], taken)
            /\ (saveTimer # <<>> /\ saveTimer' = <<>>) => UNCHANGED <<tree, treeRef, base>>]_vars

C18_Witness ==
  \E k \in Keys :
    /\ storage[k] # NoItem
    /\ decodeTree(storage[k]) # <<>>
    /\ Cardinality(DOMAIN decodeTree(storage[k])[1].nodes) >= 3
    /\ treeRef.convoKey = k
    /\ StrippedCopy(decodeTree(storage[k])[1], treeRef)
    /\ \E id \in DOMAIN treeRef.nodes : treeRef.nodes[id].userHtml # <<>>

\* the text is the snapshot of a TreeState: an object with convoKey,
\* seenLinearCount, activeId and nodes, root among the nodes
DecodesToTree(s) ==
  /\ s \notin {NoItem, EmptyText, Unparsable}
  /\ s[1] = "object"
  /\ {"convoKey", "seenLinearCount", "activeId", "nodes"} \subseteq DOMAIN s[2]
  /\ s[2].nodes[1] = "object"
  /\ ROOT_ID \in DOMAIN s[2].nodes[2]

\* C19: when the stored text does not decode to a well-formed TreeState, the
\* Overlay mounts with a fresh root-only tree, seenLinearCount = 0
C19_MalformedSnapshotIsAbsent ==
  (last.op = "mount" /\ ~DecodesToTree(last.pre)) => tree = freshTree(location)

\* C20: mounting on a snapshot stored without collapsedIds gives the stored state
\* with collapsedIds empty
C20_MissingCollapsedIdsDefaults ==
  last.op = "mount" =>
    \A t \in SessionTrees(location) :
      last.pre = WithoutCollapsedIds(JSONstringify(stripTreeForPersist(t))) =>
        /\ "collapsedIds" \in DOMAIN tree
        /\ tree.collapsedIds = EmptyMap
        /\ tree = [stripTreeForPersist(t) EXCEPT !.collapsedIds = EmptyMap]

C20_Witness ==
  /\ last.op = "mount"
  /\ DecodesToTree(last.pre)
  /\ "collapsedIds" \notin DOMAIN last.pre[2]
  /\ Cardinality(DOMAIN tree.nodes) >= 3
  /\ tree.activeId # ROOT_ID
  /\ tree.collapsedIds = EmptyMap


\* ---- retry policy ----

\* the steps in which refresh() runs: the MutationObserver, the URL poll, the
\* animation frame of the activeId effect
IsDomMutation == events' # events /\ ui' = ui /\ location' = location
IsUrlPoll == lastUrl' # lastUrl
IsRefreshFrame == refreshFrame /\ ~refreshFrame'
IsTrigger == IsDomMutation \/ IsUrlPoll \/ IsRefreshFrame

\* the trigger finds the conversation unchanged and no pair beyond the counter
FindsNotReady ==
  /\ IsTrigger
  /\ treeRef.convoKey = location
  /\ Len(extractPairs(dom'.conv, dom'.n)) <= treeRef.seenLinearCount

\* C21: a trigger that finds the page not ready shows no notice and leaves the
\* tree state, the pending updates and the storage unchanged; it schedules a
\* retry only while the retry counter is below the budget of two, counting
\* it, and otherwise schedules nothing; the retry callback never schedules a
\* retry; so the counter never exceeds the budget
C21_BoundedRetry ==
  [][/\ retryRef' \in 0..RetryBudget
     /\ FindsNotReady =>
          /\ UNCHANGED <<tree, base, queue, treeRef, storage, ui, saveTimer>>
          /\ LET r0 == IF IsUrlPoll THEN 0 ELSE retryRef
             IN \/ r0 < RetryBudget /\ retryRef' = r0 + 1 /\ retryTimer'
                \/ r0 = RetryBudget /\ UNCHANGED <<retryRef, retryTimer, retryFrame>>
     /\ (retryTimer \/ retryFrame) /\ ~retryTimer' /\ retryRef' = retryRef =>
          ~(retryFrame' /\ retryTimer')]_vars

\* the budget is used up and nothing is scheduled, on a page whose
\* MutationObserver has fired with no pair to append
C21_Witness ==
  /\ retryRef = RetryBudget
  /\ ~retryTimer /\ ~retryFrame /\ ~refreshFrame
  /\ events = MaxEvents /\ ui = NoClick
  /\ location = ThisKey /\ dom = [conv |-> ThisKey, n |-> 0]
  /\ tree = freshTree(ThisKey) /\ treeRef = tree /\ queue = <<>>

\* the budget is used up and no retry is pending
GaveUp == retryRef = RetryBudget /\ ~retryTimer /\ ~retryFrame

\* C22: a trigger that finds the page not ready after the retries were given
\* up starts over: it schedules a retry, the first of a full new budget
C22_LaterTriggerRetriesFromScratch ==
  [][FindsNotReady /\ GaveUp => retryTimer' /\ retryRef' = 1]_vars

\* ---- racing triggers ----

IsRetryFrame == retryFrame /\ ~retryFrame'

\* the state React holds once every queued update is applied
Latest == rendered(queue, TRUE).tree

\* a run of refresh() or of the retry callback that appends to the tree of the
\* current conversation
Appends ==
  /\ IsTrigger \/ IsRetryFrame
  /\ treeRef' = treeRef
  /\ queue' # queue

OneNodePerIndex(st) ==
  \A i \in Indices : Cardinality(WithIndex(st, NonRoot(st), i)) <= 1

Appended == DOMAIN queue'[Len(queue')].val.nodes \ DOMAIN treeRef.nodes

\* C24: a retry callback never appends a pair that the page shows for one
\* conversation to the tree of another conversation
C24_RetryAppendsOwnPairs ==
  [][IsRetryFrame /\ queue' # queue =>
       \A id \in Appended :
          queue'[Len(queue')].val.nodes[id].userHtml[2] = treeRef.convoKey]_vars

\* ---- debounced save ----

\* the storage entry of st's conversation holds st, stripped
Persisted(st) == storage[st.convoKey] = JSONstringify(stripTreeForPersist(st))

\* st is neither the fresh tree of its conversation nor what the storage holds
Unsaved(st) == st # freshTree(st.convoKey) /\ ~Persisted(st)

\* C25: a mutated state waiting for the save timer is written, stripped, to
\* the storage entry of its own key when the timer fires; until then it is
\* given up only for a later state of the same conversation, which is then
\* waiting in its place; so whatever follows a mutation, the mutated
\* conversation reaches its storage entry once timers fire
C25_MutationsArePersisted ==
  [][saveTimer # <<>> /\ Unsaved(saveTimer[1]) /\ saveTimer' # saveTimer =>
       \/ storage'[saveTimer[1].convoKey]
            = JSONstringify(stripTreeForPersist(saveTimer[1]))
       \/ /\ saveTimer' # <<>>
          /\ saveTimer'[1].convoKey = saveTimer[1].convoKey]_vars

(* ------------------------- the worked example -------------------------- *)

\* one conversation's tree under reconcile, select and delete, on a page that
\* shows up to ExamplePairs pairs
NextExample ==
  \/ \E n \in 0..ExamplePairs : \E rnds \in RandDraws(tree, n) : Reconcile(n, rnds)
  \/ \E id \in DOMAIN tree.nodes : SetActive(id)
  \/ \E id \in DOMAIN tree.nodes : DeleteSubtree(id)

SpecExample == InitApi /\ [][NextExample]_vars

\* the trees of (fresh; reconcile 3 pairs; select the index-0 node)
ExampleSelected ==
  {setActiveId(t, AtIndex(t, 0)) :
     t \in {reconcile(freshTree(ThisKey), extractPairs(ThisKey, 3), rnds) :
              rnds \in [0..2 -> Rand]}}

\* the trees of (fresh; reconcile 3 pairs; select the index-0 node; reconcile
\* 5 pairs)
ExampleBranched ==
  UNION {{reconcile(t, extractPairs(ThisKey, 5), rnds) : rnds \in [3..4 -> Rand]} :
           t \in ExampleSelected}

FirstReconcile ==
  last.op = "reconcile" /\ last.n = 3 /\ last.pre = freshTree(ThisKey)

SecondReconcile ==
  last.op = "reconcile" /\ last.n = 5 /\ last.pre \in ExampleSelected

\* after the first reconcile: nodes 0, 1, 2 in one chain under root, the node
\* of index 2 active, seenLinearCount = 3
ExampleChain ==
  FirstReconcile =>
    /\ \A i \in 0..2 : Cardinality(WithIndex(tree, NonRoot(tree), i)) = 1
    /\ Cardinality(NonRoot(tree)) = 3
    /\ tree.nodes[ROOT_ID].children = <<AtIndex(tree, 0)>>
    /\ tree.nodes[AtIndex(tree, 0)].parentId = ROOT_ID
    /\ tree.nodes[AtIndex(tree, 0)].children = <<AtIndex(tree, 1)>>
    /\ tree.nodes[AtIndex(tree, 1)].parentId = AtIndex(tree, 0)
    /\ tree.nodes[AtIndex(tree, 1)].children = <<AtIndex(tree, 2)>>
    /\ tree.nodes[AtIndex(tree, 2)].parentId = AtIndex(tree, 1)
    /\ tree.nodes[AtIndex(tree, 2)].children = <<>>
    /\ tree.activeId = AtIndex(tree, 2)
    /\ tree.seenLinearCount = 3

\* C26 as stated: after the first reconcile the chain above; after the select
\* and the second reconcile the nodes of indices 3 and 4 are both children of
\* the index-0 node and seenLinearCount = 5
C26_BranchOfTwoChildren ==
  /\ ExampleChain
  /\ SecondReconcile =>
       /\ \A i \in 0..4 : Cardinality(WithIndex(tree, NonRoot(tree), i)) = 1
       /\ tree.nodes[AtIndex(tree, 3)].parentId = AtIndex(tree, 0)
       /\ tree.nodes[AtIndex(tree, 4)].parentId = AtIndex(tree, 0)
       /\ tree.seenLinearCount = 5

\* C26: after the first reconcile the chain above; after the select and the
\* second reconcile the node of index 3 is the second child of the index-0
\* node (after the node of index 1), the node of index 4 is the only child of
\* the node of index 3 and is active, and seenLinearCount = 5
C26_BranchIsAChain ==
  /\ ExampleChain
  /\ SecondReconcile =>
       /\ \A i \in 0..4 : Cardinality(WithIndex(tree, NonRoot(tree), i)) = 1
       /\ Cardinality(NonRoot(tree)) = 5
       /\ tree.nodes[AtIndex(tree, 0)].children = <<AtIndex(tree, 1), AtIndex(tree, 3)>>
       /\ tree.nodes[AtIndex(tree, 3)].parentId = AtIndex(tree, 0)
       /\ tree.nodes[AtIndex(tree, 3)].children = <<AtIndex(tree, 4)>>
       /\ tree.nodes[AtIndex(tree, 4)].parentId = AtIndex(tree, 3)
       /\ tree.nodes[AtIndex(tree, 4)].children = <<>>
       /\ tree.nodes[AtIndex(tree, 1)].children = <<AtIndex(tree, 2)>>
       /\ tree.activeId = AtIndex(tree, 4)
       /\ tree.seenLinearCount = 5

\* the second reconcile of the example has run
C26_Witness == SecondReconcile /\ Cardinality(NonRoot(tree)) = 5

DeleteInExample ==
  last.op = "delete" /\ last.pre \in ExampleBranched /\ last.id = AtIndex(last.pre, 0)

\* C27 as stated: in a tree of (fresh; reconcile 3 pairs; select the index-0
\* node; reconcile 5 pairs), deleting the index-0 node removes exactly the
\* nodes of indices 0, 3 and 4, makes root active and leaves seenLinearCount
\* at 5
C27_DeleteRemovesBranchOnly ==
  DeleteInExample =>
    /\ IndicesOf(last.pre, DOMAIN last.pre.nodes \ DOMAIN tree.nodes) = {0, 3, 4}
    /\ tree.activeId = ROOT_ID
    /\ tree.seenLinearCount = 5

\* C27: in such a tree, deleting the index-0 node removes the nodes of all
\* five indices (those of 1 and 2 hang under the index-0 node as well), leaves
\* root alone and active, and seenLinearCount at 5
C27_DeleteRemovesWholeChain ==
  DeleteInExample =>
    /\ IndicesOf(last.pre, DOMAIN last.pre.nodes \ DOMAIN tree.nodes) = 0..4
    /\ DOMAIN tree.nodes = {ROOT_ID}
    /\ tree.nodes[ROOT_ID].children = <<>>
    /\ tree.activeId = ROOT_ID
    /\ tree.seenLinearCount = 5

\* the index-0 node of the example's tree was deleted
C27_Witness == DeleteInExample /\ tree.seenLinearCount = 5

(* ---------------------- walks over damaged snapshots ------------------- *)

\* snapshots whose parent links are damaged: the chain of MaxPairs appended
\* pairs with one node's parentId pointing at any node (itself, a descendant,
\* its parent as before) or at no node, and activeId naming the last node or
\* no node
BrokenTrees(key) ==
  LET t0 == appendLoop(freshTree(key), extractPairs(key, MaxPairs), 0,
                       [i \in 0..(MaxPairs - 1) |-> 1])
      rewired == UNION {{[t0 EXCEPT !.nodes[x].parentId = p] :
                           p \in DOMAIN t0.nodes \cup {MissingId}} : x \in NonRoot(t0)}
  IN UNION {{t, [t EXCEPT !.activeId = MissingId]} : t \in rewired}

BrokenTexts(key) == {JSONstringify(stripTreeForPersist(t)) : t \in BrokenTrees(key)}

\* the page loads with s stored under the conversation's key and the Overlay
\* mounts: useState(() => loadTree(key) ?? freshTree(key))
MountOn(s) ==
  /\ storage' = [storage EXCEPT ![location] = s]
  /\ tree' = IF decodeTree(s) = <<>> THEN freshTree(location) ELSE decodeTree(s)[1]
  /\ base' = tree'
  /\ treeRef' = tree'
  /\ queue' = <<>>
  /\ effects' = {}
  /\ saveTimer' = <<tree'>>
  /\ last' = Op("mount", -1, NoId, s)
  /\ UNCHANGED <<retryRef, retryTimer, retryFrame, refreshFrame, location,
                 lastUrl, dom, aligning, events, ui, removed>>

\* the Overlay mounts on such a snapshot; the user selects, collapses, focuses
NextWalk ==
  \/ \E s \in BrokenTexts(location) : MountOn(s)
  \/ \E id \in DOMAIN tree.nodes : SetActive(id)
  \/ \E id \in Toggleable(tree) : ToggleCollapse(id)
  \/ FocusOnActive

SpecWalk == InitLoad /\ [][NextWalk]_vars

\* the k-th id on the parentId chain that starts at id (no node: no parent)
RECURSIVE NthUp(_, _, _)
NthUp(st, id, k) ==
  IF k = 0 THEN id
  ELSE LET c == NthUp(st, id, k - 1)
       IN IF c \in DOMAIN st.nodes THEN st.nodes[c].parentId ELSE MissingId

Repeats(st, id, k) == \E j \in 0..(k - 1) : NthUp(st, id, j) = NthUp(st, id, k)

\* the chain from id ends at its k-th id: root, an id of no node, or an id seen
\* before
EndsAt(st, id, k) ==
  \/ NthUp(st, id, k) = ROOT_ID
  \/ NthUp(st, id, k) \notin DOMAIN st.nodes
  \/ Repeats(st, id, k)

ChainLength(st, id) ==
  CHOOSE k \in 0..(Cardinality(DOMAIN st.nodes) + 1) :
     EndsAt(st, id, k) /\ \A j \in 0..(k - 1) : ~EndsAt(st, id, j)

\* C28: on every state, damaged or not, pathToRoot is the parentId chain from
\* activeId up to where it ends (root, a missing node or a node met before),
\* in root-to-active order: each element is the parent of the next, the last
\* is the active node and, when the chain reaches root, the first is a child
\* of root; isHidden of a node is true exactly when a parent met on its chain
\* up to that end is collapsed; the walk of focusOnActive yields the same
\* chain, with an id of no node kept as its last step
C28_WalksEndWithTheChain ==
  LET st == tree
      K == ChainLength(st, st.activeId)
      path == pathToRoot(st)
      up == upWalk(st.nodes, st.activeId, {})
      U == IF NthUp(st, st.activeId, K) \in DOMAIN st.nodes THEN K ELSE K + 1
  IN /\ Len(path) = K
     /\ \A i \in 1..K : path[i] = NthUp(st, st.activeId, K - i)
     /\ \A i \in 1..(K - 1) : st.nodes[path[i + 1]].parentId = path[i]
     /\ K > 0 => path[K] = st.activeId
     /\ K > 0 /\ NthUp(st, st.activeId, K) = ROOT_ID => st.nodes[path[1]].parentId = ROOT_ID
     /\ NoDuplicates(path)
     /\ \A id \in DOMAIN st.nodes \cup {MissingId} :
          isHiddenByCollapsed(st, id)
            = \E k \in 1..ChainLength(st, id) : IsCollapsed(st, NthUp(st, id, k))
     /\ Len(up) = U
     /\ \A i \in 1..U : up[i] = NthUp(st, st.activeId, U - i)

\* a mounted snapshot whose active node lies on a cycle of parent links, with
\* a collapsed row
C28_Witness ==
  /\ last.op \in {"toggle", "focus"}
  /\ tree.activeId \in DOMAIN tree.nodes
  /\ Repeats(tree, tree.activeId, ChainLength(tree, tree.activeId))
  /\ DOMAIN tree.collapsedIds # {}

(* ------------------------------ listings ------------------------------- *)

PositionIn(s, x) == CHOOSE i \in 1..Len(s) : s[i] = x

\* C29: flatten holds every non-root node once; the first child of a node
\* comes right after the node (the first child of root comes first) and each
\* next child right after the whole subtree of the child before it, which is
\* depth-first pre-order with children in stored order; collapsedIds has no
\* part in it; the listing of the UI holds exactly the nodes that are not
\* hidden, once each, in the order they have in flatten
C29_FlattenIsPreOrder ==
  LET f == flattenTree(tree)
      v == flatNodes(tree)
      after(p) == IF p = ROOT_ID THEN 0 ELSE PositionIn(f, p)
  IN /\ Range(f) = NonRoot(tree)
     /\ Len(f) = Cardinality(NonRoot(tree))
     /\ \A p \in DOMAIN tree.nodes :
          LET ch == tree.nodes[p].children
          IN \A i \in 1..Len(ch) :
               PositionIn(f, ch[i]) =
                 IF i = 1 THEN after(p) + 1
                 ELSE PositionIn(f, ch[i - 1]) + Cardinality(SubtreeOf(tree, ch[i - 1]))
     /\ f = flattenTree(clearCollapsed(tree))
     /\ Range(v) = {x \in NonRoot(tree) : ~isHiddenByCollapsed(tree, x)}
     /\ NoDuplicates(v)
     /\ \A i, j \in 1..Len(v) : i < j => PositionIn(f, v[i]) < PositionIn(f, v[j])

\* a tree with a branch point and a node below a collapsed row
C29_Witness ==
  /\ \E p \in DOMAIN tree.nodes :
        /\ Len(tree.nodes[p].children) >= 2
        /\ tree.nodes[tree.nodes[p].children[1]].children # <<>>
  /\ Len(flatNodes(tree)) < Len(flattenTree(tree))
  /\ Len(flatNodes(tree)) > 0

(* -------------------------------- ids ---------------------------------- *)

\* the nodes the last reconcile or align made
Created ==
  IF last.op = "align" THEN NonRoot(tree)
  ELSE {id \in NonRoot(tree) :
          tree.nodes[id].linearIndex >= last.pre.seenLinearCount}

\* C30 as stated: no id made by reconcile or align is the id of a node that
\* was in the conversation's tree before
C30_IdsNeverReused ==
  last.op \in {"reconcile", "align"} => Created \cap DOMAIN last.pre.nodes = {}

\* C30: every node is stored under its own id; the ids reconcile makes are
\* of the form n_<index>_<random>, one per appended index, and none is the id
\* of a node the tree already holds; the ids align makes are n_align_<i>, one
\* per pair; so no two nodes of a tree share an id and a reconciled id is
\* never an aligned id
C30_IdsUniqueWithinTree ==
  /\ \A id \in DOMAIN tree.nodes : tree.nodes[id].id = id
  /\ \A id \in NonRoot(tree) : id[1] \in {"n", "n_align"}
  /\ last.op = "reconcile" /\ last.n > last.pre.seenLinearCount =>
       /\ Created \cap DOMAIN last.pre.nodes = {}
       /\ Cardinality(Created) = last.n - last.pre.seenLinearCount
       /\ \A id \in Created : id[1] = "n"
       /\ DOMAIN last.pre.nodes \subseteq DOMAIN tree.nodes
  /\ last.op = "align" =>
       /\ Cardinality(Created) = last.n
       /\ \A id \in Created : id[1] = "n_align"

\* reconcile appended two nodes to a tree that holds aligned nodes
C30_Witness ==
  /\ last.op = "reconcile"
  /\ Cardinality(Created) >= 2
  /\ \E id \in DOMAIN last.pre.nodes : id[1] = "n_align"
  /\ \E id \in DOMAIN tree.nodes : id[1] = "n_align"

(* ------------------------------- root ---------------------------------- *)

\* st holds the root as freshTree makes it, and not flagged collapsed
RootIntact(st) ==
  /\ ROOT_ID \in DOMAIN st.nodes
  /\ st.nodes[ROOT_ID].id = ROOT_ID
  /\ st.nodes[ROOT_ID].parentId = ROOT_ID
  /\ st.nodes[ROOT_ID].depth = 0
  /\ st.nodes[ROOT_ID].linearIndex = -1
  /\ ~IsCollapsed(st, ROOT_ID)

\* C31: whatever entry points were called, the tree holds the root under its
\* fixed id, its own parent, at depth 0 with linearIndex -1 and not flagged in
\* collapsedIds; a deleteSubtree aimed at the root removes nothing
C31_RootIntact ==
  /\ RootIntact(tree)
  /\ last.op = "delete" /\ last.id = ROOT_ID => tree = last.pre

\* deleteSubtree was called on the root of a tree with nodes and collapsed rows
C31_Witness ==
  /\ last.op = "delete" /\ last.id = ROOT_ID
  /\ Cardinality(DOMAIN tree.nodes) >= 3
  /\ \E id \in DOMAIN tree.collapsedIds : tree.collapsedIds[id]

(* -------------------------- conversation switch ------------------------ *)
\* a call of refresh that finds the page on another conversation than the state
IsSwitch == IsTrigger /\ treeRef.convoKey # location

\* st is the tree freshTree makes for key
RootOnly(st, key) ==
  /\ st.convoKey = key
  /\ DOMAIN st.nodes = {ROOT_ID}
  /\ st.nodes[ROOT_ID].children = <<>>
  /\ st.seenLinearCount = 0
  /\ st.activeId = ROOT_ID

\* C32: a refresh that finds another conversation key installs (treeRef.current
\* and a queued setTree) the state stored under the new key, or a root-only tree
\* when nothing is stored, sets the retry counter to 0, cancels the retry timer,
\* appends nothing, and leaves localStorage, the old key's entry included, as it was
C32_SwitchInstallsStoredOrFresh ==
  [][IsSwitch =>
       /\ treeRef'.convoKey = location
       /\ storage[location] = NoItem => RootOnly(treeRef', location)
       /\ storage[location] # NoItem => JSONstringify(treeRef') = storage[location]
       /\ queue' = Append(queue, SetTree("default", treeRef'))
       /\ retryRef' = 0
       /\ ~retryTimer'
       /\ storage' = storage]_vars

\* refresh has just switched back to a conversation whose stored tree has nodes,
\* with the conversation it left stored as well
C32_Witness ==
  /\ treeRef.convoKey = location
  /\ tree.convoKey # location
  /\ queue # <<>> /\ queue[Len(queue)] = SetTree("default", treeRef)
  /\ storage[location] # NoItem
  /\ storage[tree.convoKey] # NoItem
  /\ Cardinality(DOMAIN treeRef.nodes) >= 2
  /\ retryRef = 0 /\ ~retryTimer

(* --------------------------- linear indices ---------------------------- *)
\* no linearIndex is held by two nodes of st, and every node but the root has
\* one in 0 .. seenLinearCount - 1
IndicesInRange(st) ==
  /\ \A a, b \in DOMAIN st.nodes :
       st.nodes[a].linearIndex = st.nodes[b].linearIndex => a = b
  /\ \A id \in DOMAIN st.nodes \ {ROOT_ID} :
       /\ st.nodes[id].linearIndex >= 0
       /\ st.nodes[id].linearIndex < st.seenLinearCount

\* C33: in every state the component reaches, the rendered tree and the tree in
\* treeRef.current hold no two nodes with the same linearIndex, and every
\* non-root node's linearIndex is at least 0 and below seenLinearCount
C33_IndicesUniqueAndInRange == IndicesInRange(tree) /\ IndicesInRange(treeRef)

\* deleteSubtree has left a gap: a counted index that no node holds, below the
\* index of a node that is still there
C33_Witness ==
  /\ last.op = "delete"
  /\ \E i, j \in 0..(tree.seenLinearCount - 1) :
       /\ i < j
       /\ \A id \in DOMAIN tree.nodes : tree.nodes[id].linearIndex # i
       /\ \E id \in DOMAIN tree.nodes : tree.nodes[id].linearIndex = j


(* ------------------------- parents and children ------------------------ *)
\* every node of st but the root has its parent in st, a linearIndex above its
\* parent's and a depth one more than its parent's, and every node lists its
\* children, all in st, by strictly increasing linearIndex
ParentsFirst(st) ==
  /\ \A id \in DOMAIN st.nodes \ {ROOT_ID} :
       /\ st.nodes[id].parentId \in DOMAIN st.nodes
       /\ st.nodes[id].linearIndex > st.nodes[st.nodes[id].parentId].linearIndex
       /\ st.nodes[id].depth = st.nodes[st.nodes[id].parentId].depth + 1
  /\ \A id \in DOMAIN st.nodes :
       LET ch == st.nodes[id].children
       IN /\ \A k \in 1..Len(ch) : ch[k] \in DOMAIN st.nodes
          /\ \A k \in 1..(Len(ch) - 1) :
               st.nodes[ch[k]].linearIndex < st.nodes[ch[k + 1]].linearIndex

\* C34: in every reachable state each non-root node's linearIndex is strictly
\* greater than its parent's and its depth is its parent's depth + 1, and each
\* node's children are listed in strictly increasing linearIndex order
C34_ParentsFirst == ParentsFirst(tree) /\ ParentsFirst(treeRef)

\* reconcile has appended a second child to a node other than the root, after
\* the user had selected that node
C34_Witness ==
  /\ last.op = "reconcile" /\ tree # last.pre
  /\ \E id \in DOMAIN tree.nodes \ {ROOT_ID} : Len(tree.nodes[id].children) >= 2


(* ---------------------------- collapse flags --------------------------- *)
\* the ids flagged true in st.collapsedIds
Flagged(st) == {id \in DOMAIN st.collapsedIds : st.collapsedIds[id]}

\* C35: in every reachable state every id flagged true in collapsedIds names a
\* node that exists in nodes
C35_FlagsNameNodes == Flagged(tree) \subseteq DOMAIN tree.nodes

(* ------------------------------ quiescence ----------------------------- *)
\* The overlay's own steps are taken when they stay possible: the retry timer
\* fires, React renders what is queued and runs the effects of a render, the
\* 700 ms interval polls the URL, requested animation frames run, a started
\* alignToDom goes on after its waits.  For the four steps that queue a setTree
\* weak fairness is written out, with the condition under which the step can be
\* taken in place of ENABLED.
SpecFair ==
  /\ Init /\ [][Next]_vars
  /\ WF_vars(RetryTimerFires)
  /\ WF_vars(Render)
  /\ WF_vars(RunEffects)
  /\ ([]<>~(location # lastUrl /\ Len(queue) < MaxQueue) \/ []<><<UrlPoll>>_vars)
  /\ ([]<>~(refreshFrame /\ Len(queue) < MaxQueue) \/ []<><<RefreshFrame>>_vars)
  /\ ([]<>~(retryFrame /\ Len(queue) < MaxQueue) \/ []<><<RetryFrame>>_vars)
  /\ ([]<>~(aligning = "running" /\ Len(queue) < MaxQueue)
        \/ []<><<alignToDomFinish>>_vars)

\* no call of refresh is on its way (URL seen by the poll, no frame requested by
\* the activeId effect, no update or effect waiting that could request one) and
\* no retry timer or retry frame is waiting
Quiet ==
  /\ lastUrl = location
  /\ ~refreshFrame
  /\ ~retryTimer
  /\ ~retryFrame
  /\ queue = <<>>
  /\ effects = {}

\* C36: once the page, the URL and the user stop acting, the overlay comes to
\* rest after finitely many of its own steps: no refresh pending, no retry timer
\* armed, and the refresh -> activeId effect -> refresh -> retry cycle does not
\* start itself again
C36_Quiescence == <>[]Quiet

\* the overlay at rest after the cycle ran: refresh appended, the activeId effect
\* called refresh again, which found nothing new and spent a retry
C36_Witness ==
  /\ Quiet
  /\ retryRef >= 1
  /\ treeRef = tree
  /\ tree.seenLinearCount >= 2
  /\ events = MaxEvents

(* --------------------------- no lost update ---------------------------- *)
\* the overlay on a page that stays on the conversation it was mounted on: Next
\* without navigation, so that the 700 ms poll never sees a new URL
NextStay ==
  \/ \E n \in 0..MaxPairs : DomMutation(n)
  \/ RefreshFrame
  \/ RetryTimerFires
  \/ RetryFrame
  \/ Render
  \/ RunEffects
  \/ SaveTimerFires
  \/ \E id \in DOMAIN tree.nodes : selectActive(id)
  \/ \E id \in DOMAIN tree.nodes : toggleCollapseNode(id)
  \/ expandAllNodes
  \/ collapseAllOtherNodes
  \/ \E ok \in BOOLEAN : deleteActiveNode(ok)
  \/ \E ok \in BOOLEAN : alignToDomStart(ok)
  \/ alignToDomFinish

SpecStay == Init /\ [][NextStay]_vars

\* a step that is not a click and not alignToDom's rebuild, taken while the
\* latest event from outside is a click: refresh called by the observer for the
\* page's next change or by the activeId frame, a retry callback, a render, a
\* timer
AfterClick ==
  /\ ui' = ui
  /\ ui.at = events
  /\ ~(aligning = "running" /\ aligning' = "done")

CollapseHandlers == {"toggleCollapseNode", "expandAllNodes", "collapseAllOtherNodes"}

C37_WitnessFlags ==
  /\ ui.handler = "toggleCollapseNode" /\ ui.target = "ok"
  /\ events = ui.at + 1
  /\ queue # <<>>
  /\ Flagged(Latest) # {}
  /\ DOMAIN Latest.nodes # DOMAIN tree.nodes


(* ---------------------- progress after a switch ------------------------ *)
\* refresh has installed the state of another conversation than the one the
\* overlay was mounted on, the page shows that conversation, and it shows pairs
\* beyond the seenLinearCount of the state
Behind ==
  /\ location # ThisKey
  /\ dom.conv = location
  /\ treeRef.convoKey = location
  /\ Latest.convoKey = location
  /\ dom.n > Latest.seenLinearCount

\* C38: once refresh has installed the state of a new conversation key, the
\* pairs the page already shows for it beyond seenLinearCount are eventually
\* appended, without a further DOM mutation or URL change
C38_ProgressAfterSwitch == Behind ~> ~Behind
====
